---- MODULE Spec2Model ----
(***************************************************************************)
(* A model of the retrieval-augmented conversation pipeline of             *)
(* AgentEvaPortal: RetrievalService (chunking, indexing, tenant-filtered   *)
(* vector search), DatabaseService (conversations and messages) and        *)
(* ChatService.process_message.                                            *)
(*                                                                         *)
(* Texts are strings; Python's 0-based, end-exclusive indices are kept in  *)
(* the operators that model string code and converted at the string        *)
(* primitives.                                                             *)
(***************************************************************************)
EXTENDS Integers, Sequences, FiniteSets, TLC

(***************************************************************************)
(* Bounds of the model.                                                    *)
(***************************************************************************)
\* repetitions of the sentence unit in the two-chunk text
RepTwo == 50
\* iterations of the chunking loop that are followed before giving up
MaxChunkIter == 8

(***************************************************************************)
(* Program constants.                                                      *)
(***************************************************************************)
DefaultChunkSize == 1000
DefaultOverlap == 200

(***************************************************************************)
(* String helpers (Python str semantics).                                  *)
(***************************************************************************)
Max(S) == CHOOSE x \in S : \A y \in S : y <= x
Min(S) == CHOOSE x \in S : \A y \in S : x <= y

\* the character at 0-based position i
CharAt(s, i) == SubSeq(s, i + 1, i + 1)

\* The whitespace of Python str: what \s matches and what str.strip()
\* removes.  Of its 29 characters these are the ones a string constant of
\* this module can hold (the others are U+2000..U+200A, U+2028, U+2029,
\* U+202F, U+205F and U+3000).
Whitespace == {"\t", "\n", "", "\f", "\r", "", "", "", "", " ", "", " ", " "}
IsSpace(c) == c \in Whitespace

\* a slice bound as Python adjusts it: negative counts from the end, then clamp
AdjustIndex(i, n) ==
    IF i < 0 THEN (IF i + n < 0 THEN 0 ELSE i + n)
    ELSE IF i > n THEN n ELSE i

\* s[a:b]
Slice(s, a, b) ==
    LET n == Len(s)
        lo == AdjustIndex(a, n)
        hi == AdjustIndex(b, n)
    IN  IF lo >= hi THEN "" ELSE SubSeq(s, lo + 1, hi)

\* s.strip()
Strip(s) ==
    LET keep == {i \in 0..(Len(s) - 1) : ~IsSpace(CharAt(s, i))}
    IN  IF keep = {} THEN "" ELSE SubSeq(s, Min(keep) + 1, Max(keep) + 1)

\* s.rfind(sub, a, b): the highest index in s[a:b] where sub starts, or -1
RFind(s, sub, a, b) ==
    LET n == Len(s)
        lo == AdjustIndex(a, n)
        hi == AdjustIndex(b, n)
        hits == {i \in lo..(hi - Len(sub)) : SubSeq(s, i + 1, i + Len(sub)) = sub}
    IN  IF hits = {} THEN -1 ELSE Max(hits)

\* the concatenation of piece[lo], ..., piece[hi]
RECURSIVE ConcatRange(_, _, _)
ConcatRange(piece, lo, hi) ==
    IF lo > hi THEN ""
    ELSE IF lo = hi THEN piece[lo]
    ELSE LET mid == (lo + hi) \div 2
         IN  ConcatRange(piece, lo, mid) \o ConcatRange(piece, mid + 1, hi)

\* re.sub(r'\s+', ' ', s): every run of whitespace becomes one space
CollapseSpaces(s) ==
    LET piece == [i \in 0..(Len(s) - 1) |->
                    IF ~IsSpace(CharAt(s, i)) THEN CharAt(s, i)
                    ELSE IF i > 0 /\ IsSpace(CharAt(s, i - 1)) THEN ""
                    ELSE " "]
    IN  ConcatRange(piece, 0, Len(s) - 1)

\* s repeated n times
RECURSIVE Rep(_, _)
Rep(s, n) ==
    IF n <= 0 THEN ""
    ELSE IF n = 1 THEN s
    ELSE Rep(s, n \div 2) \o Rep(s, n - (n \div 2))

(***************************************************************************)
(* RetrievalService._chunk_text                                            *)
(***************************************************************************)
Boundaries == <<". ", "? ", "! ", "\n">>

\* the for loop over the boundaries: the window's end after the first boundary
\* whose last occurrence lies past the window start, else the hard end
RECURSIVE BreakAt(_, _, _, _)
BreakAt(text, start, end, k) ==
    IF k > Len(Boundaries) THEN end
    ELSE LET last_boundary == RFind(text, Boundaries[k], start, end)
         IN  IF last_boundary > start THEN last_boundary + 1
             ELSE BreakAt(text, start, end, k + 1)

\* one iteration of the while loop from the window start: the chunk it
\* appends and the next window start
LoopBody(text, chunk_size, overlap, start) ==
    LET end0 == start + chunk_size
        end == IF end0 < Len(text) THEN BreakAt(text, start, end0, 1) ELSE end0
    IN  [chunk |-> Strip(Slice(text, start, end)),
         start |-> IF end < Len(text) THEN end - overlap ELSE end]

\* the while loop.  Its next window start depends on the window start alone,
\* so the loop either leaves with start >= len(text) or comes back to a
\* window start it has had (seen) and then never leaves: done says which,
\* and chunks is what the call returns when done, and the chunks appended
\* before the first repeated window start when not
RECURSIVE ChunkLoop(_, _, _, _, _, _)
ChunkLoop(text, chunk_size, overlap, start, chunks, seen) ==
    IF ~(start < Len(text)) THEN [chunks |-> chunks, done |-> TRUE]
    ELSE IF start \in seen THEN [chunks |-> chunks, done |-> FALSE]
    ELSE LET b == LoopBody(text, chunk_size, overlap, start)
         IN  ChunkLoop(text, chunk_size, overlap, b.start,
                       Append(chunks, b.chunk), seen \cup {start})

\* _chunk_text: whether the call returns (done) and the list it returns
ChunkRun(text0, chunk_size, overlap) ==
    LET text == Strip(CollapseSpaces(text0))
    IN  IF Len(text) <= chunk_size THEN [chunks |-> <<text>>, done |-> TRUE]
        ELSE ChunkLoop(text, chunk_size, overlap, 0, <<>>, {})

(***************************************************************************)
(* Inputs of the knowledge-base operations.                                *)
(***************************************************************************)
Tenants == {"acme", "globex"}
DocIds == {"d1", "d1_0"}
Title == "Refund Policy"

SentenceUnit == "Refunds take 30 days. "
TextOne == "We offer  refunds within\n30 days. "
TextTwo == Rep(SentenceUnit, RepTwo)
Contents == {TextOne, TextTwo}

\* caller-supplied metadata mappings (key -> value)
\* {} and {"source": "faq", "tenant_id": "globex"}
EmptyMeta == [k \in {} |-> ""]
ShadowMeta == [k \in {"source", "tenant_id"} |-> IF k = "source" THEN "faq" ELSE "globex"]
Metas == {EmptyMeta, ShadowMeta}

\* similarity scores and thresholds, in hundredths
Scores == {60, 80}
DefaultThreshold == 70
DefaultTopK == 5
TopKs == {1, DefaultTopK}
HighThreshold == 80
Queries == {"I want a refund"}

\* the chunks of each content under the default chunk size and overlap
ChunksOf == [c \in Contents |-> ChunkRun(c, DefaultChunkSize, DefaultOverlap)]

(***************************************************************************)
(* State.                                                                  *)
(***************************************************************************)
VARIABLES
    pc,       \* RetrievalService._pinecone_client is set
    instances,     \* the RetrievalService objects built: tenant_id, self.pc
    index_exists,  \* the vector store has the index agenteva-knowledge
    store,    \* the vector index: vector id -> vector
    kb,       \* the last knowledge-base call: its arguments and what it returned
    kbOps,    \* number of knowledge-base calls made so far
    conversations,  \* the conversations table, in insertion order
    messages,       \* the messages table, in insertion order
    now,            \* the last value datetime.utcnow() returned
    call,           \* per request: where its handler stands, and its locals
    ret,            \* per request: what its last call returned
    db,             \* the last DatabaseService call made outside a request
    dbOps           \* number of database calls and requests started so far

clientVars == <<pc, instances, index_exists>>
kbVars == <<pc, instances, index_exists, store, kb, kbOps>>
dbVars == <<conversations, messages, now, call, ret, db, dbOps>>
vars == <<pc, instances, index_exists, store, kb, kbOps, conversations, messages, now, call, ret, db, dbOps>>

\* knowledge-base calls in one behaviour
MaxKbOps == 2

\* RetrievalService objects in one behaviour of the knowledge-base
\* specification
MaxInstances == 2

\* which provider call of an index_document run raises: 0 none, k the
\* embedding of the k-th chunk, UpsertFails step 3 (self.pc.Index or
\* index.upsert)
UpsertFails == -1
IndexFailures == {0, 1, 2, UpsertFails}
\* which provider call of a search run raises: the embedding, self.pc.Index
\* or index.query
SearchFailures == {"none", "embed", "index", "query"}

(***************************************************************************)
(* RetrievalService.__init__ and _ensure_index_exists                      *)
(***************************************************************************)
\* The constructor for tenant t.  client_ok: Pinecone(api_key=...) returns
\* (it is called only while the class has no client); ensure_ok: list_indexes
\* and, when the index is missing, create_index return (their exception is
\* logged and dropped).
RetrievalServiceInit(t, client_ok, ensure_ok) ==
    /\ pc' = (pc \/ client_ok)
    /\ index_exists' = (index_exists \/ ((pc \/ client_ok) /\ ensure_ok))

\* RetrievalService(tenant_id) on its own; the caller keeps the object
NewRetrievalService(t, client_ok, ensure_ok) ==
    /\ Cardinality(instances \cup {[tenant_id |-> t, pc |-> (pc \/ client_ok)]})
           <= MaxInstances
    /\ RetrievalServiceInit(t, client_ok, ensure_ok)
    /\ instances' = instances \cup {[tenant_id |-> t, pc |-> (pc \/ client_ok)]}
    /\ UNCHANGED <<store, kb, kbOps, dbVars>>

(***************************************************************************)
(* The vector store (Pinecone index), as the code uses it.                 *)
(***************************************************************************)
\* _generate_embedding: the provider's vector for a text
Embed(text) == [of |-> text]

\* a metadata filter {key: value, ...} matches a vector when every key is
\* present with that value
MatchesFilter(v, filter) ==
    \A k \in DOMAIN filter : k \in DOMAIN v.metadata /\ v.metadata[k] = filter[k]

\* index.upsert(vectors): each vector replaces the vector of the same id
Upsert(st, vectors) ==
    LET ids == {vectors[i].id : i \in 1..Len(vectors)}
        lastOf(id) == vectors[Max({i \in 1..Len(vectors) : vectors[i].id = id})]
    IN  [id \in DOMAIN st \cup ids |-> IF id \in ids THEN lastOf(id) ELSE st[id]]

\* index.delete(filter=...)
DeleteByFilter(st, filter) ==
    [id \in {i \in DOMAIN st : ~MatchesFilter(st[i], filter)} |-> st[id]]

\* the ids of the vectors that match a filter
Candidates(st, filter) == {i \in DOMAIN st : MatchesFilter(st[i], filter)}

\* the ids of S by decreasing score
RECURSIVE Rank(_, _)
Rank(S, score) ==
    IF S = {} THEN <<>>
    ELSE LET best == CHOOSE x \in S : \A y \in S : score[y] <= score[x]
         IN  <<best>> \o Rank(S \ {best}, score)

\* index.query(vector, top_k, filter, include_metadata=True): the top_k
\* vectors that match the filter, by decreasing similarity score
Query(st, top_k, filter, score) ==
    LET ranked == Rank(Candidates(st, filter), score)
        n == IF Len(ranked) < top_k THEN Len(ranked) ELSE top_k
    IN  [k \in 1..n |-> [id |-> ranked[k], score |-> score[ranked[k]],
                         metadata |-> st[ranked[k]].metadata]]

(***************************************************************************)
(* RetrievalService.index_document                                         *)
(***************************************************************************)
\* a dict display {k1: v1, ..., **extra}: later keys replace earlier ones
DictMerge(base, extra) ==
    [k \in DOMAIN base \cup DOMAIN extra |->
        IF k \in DOMAIN extra THEN extra[k] ELSE base[k]]

\* an id scheme that numbers the chunk of a one-chunk document too
VectorIdNumbered(document_id, i, n) == document_id \o "_" \o ToString(i)

\* f"{document_id}_{i}" if len(chunks) > 1 else document_id
VectorId(document_id, i, n) ==
    IF n > 1 THEN document_id \o "_" \o ToString(i) ELSE document_id

\* chunk_metadata of chunk i (0-based) of n
ChunkMetadata(tenant_id, document_id, title, chunk, i, n, metadata) ==
    DictMerge([tenant_id |-> tenant_id,
               document_id |-> document_id,
               title |-> title,
               content |-> chunk,
               chunk_index |-> i,
               total_chunks |-> n],
              metadata)

\* the vectors list after the loop over the chunks
BuildVectors(tenant_id, document_id, title, chunks, metadata) ==
    [k \in 1..Len(chunks) |->
        [id |-> VectorId(document_id, k - 1, Len(chunks)),
         values |-> Embed(chunks[k]),
         metadata |-> ChunkMetadata(tenant_id, document_id, title, chunks[k],
                                    k - 1, Len(chunks), metadata)]]

\* an index_document that upserts every vector as soon as it is embedded
IndexRunEager(st, client, tenant_id, document_id, title, content, metadata, fail) ==
    LET chunks == ChunksOf[content].chunks
        vectors == BuildVectors(tenant_id, document_id, title, chunks, metadata)
        n == IF fail \in 1..Len(chunks) THEN fail - 1 ELSE Len(chunks)
        sent == IF fail = UpsertFails THEN <<>> ELSE SubSeq(vectors, 1, n)
    IN  IF ~client
            THEN [store |-> st, upserts |-> <<>>, result |-> FALSE, raised |-> FALSE]
        ELSE [store |-> Upsert(st, sent),
              upserts |-> [k \in 1..Len(sent) |-> <<sent[k]>>],
              result |-> (fail = 0 \/ fail > Len(chunks)),
              raised |-> FALSE]

\* One run of index_document on the store st.  fail = k > 0: the embedding
\* call of the k-th chunk raises; fail = UpsertFails: index.upsert raises;
\* fail = 0: no call raises.  upserts is the list of upsert calls that
\* reached the store; raised: an exception left index_document.
IndexRun(st, client, tenant_id, document_id, title, content, metadata, fail) ==
    LET chunks == ChunksOf[content].chunks
        vectors == BuildVectors(tenant_id, document_id, title, chunks, metadata)
    IN  IF ~client
            THEN [store |-> st, upserts |-> <<>>, result |-> FALSE, raised |-> FALSE]
        ELSE IF fail \in 1..Len(chunks)
            THEN [store |-> st, upserts |-> <<>>, result |-> FALSE, raised |-> FALSE]
        ELSE IF fail = UpsertFails
            THEN [store |-> st, upserts |-> <<>>, result |-> FALSE, raised |-> FALSE]
        ELSE [store |-> Upsert(st, vectors), upserts |-> <<vectors>>,
              result |-> TRUE, raised |-> FALSE]

\* index_document on the object self.  Without the index, step 3 raises
\* whenever the run gets there, that is, unless the embedding call of one of
\* the chunks has raised before; kb.fail is the call that raised.
IndexDocument(self, d, content, md, fail) ==
    /\ kbOps < MaxKbOps
    /\ ChunksOf[content].done
    /\ LET raises == IF /\ self.pc
                        /\ ~index_exists
                        /\ fail \notin 1..Len(ChunksOf[content].chunks)
                     THEN UpsertFails
                     ELSE fail
           r == IndexRun(store, self.pc, self.tenant_id, d, Title, content, md, raises)
       IN  /\ store' = r.store
           /\ kb' = [op |-> "index", tenant |-> self.tenant_id, client |-> self.pc,
                     doc |-> d, content |-> content,
                     meta |-> md, fail |-> raises, result |-> r.result,
                     upserts |-> r.upserts, raised |-> r.raised,
                     before |-> DOMAIN store]
    /\ kbOps' = kbOps + 1
    /\ UNCHANGED <<clientVars, dbVars>>

(***************************************************************************)
(* RetrievalService.delete_document                                        *)
(***************************************************************************)
\* a delete that filters on the document id alone
DeleteFilterDocOnly(tenant_id, document_id) == [document_id |-> document_id]

DeleteFilter(tenant_id, document_id) ==
    [document_id |-> document_id, tenant_id |-> tenant_id]

DeleteRun(st, client, tenant_id, document_id, deleteFails) ==
    IF ~client THEN [store |-> st, result |-> FALSE, raised |-> FALSE]
    ELSE IF deleteFails THEN [store |-> st, result |-> FALSE, raised |-> FALSE]
    ELSE [store |-> DeleteByFilter(st, DeleteFilter(tenant_id, document_id)),
          result |-> TRUE, raised |-> FALSE]

\* delete_document on the object self; without the index, self.pc.Index raises
DeleteDocument(self, d, deleteFails) ==
    /\ kbOps < MaxKbOps
    /\ (self.pc /\ ~index_exists) => deleteFails
    /\ LET r == DeleteRun(store, self.pc, self.tenant_id, d, deleteFails)
       IN  /\ store' = r.store
           /\ kb' = [op |-> "delete", tenant |-> self.tenant_id, client |-> self.pc,
                     doc |-> d, result |-> r.result,
                     raised |-> r.raised,
                     removed |-> Cardinality(DOMAIN store \ DOMAIN r.store)]
    /\ kbOps' = kbOps + 1
    /\ UNCHANGED <<clientVars, dbVars>>

(***************************************************************************)
(* RetrievalService.search                                                 *)
(***************************************************************************)
\* a search that passes no filter to the query
SearchFilterNone(tenant_id) == [k \in {} |-> ""]

SearchFilter(tenant_id) == [tenant_id |-> tenant_id]

\* key in metadata ? metadata[key] : default
DictGet(m, key, default) == IF key \in DOMAIN m THEN m[key] ELSE default

\* a formatting that keeps only the matches above the threshold
RECURSIVE FormatMatchesStrict(_, _)
FormatMatchesStrict(matches, score_threshold) ==
    IF matches = <<>> THEN <<>>
    ELSE LET m == Head(matches)
             rest == FormatMatchesStrict(Tail(matches), score_threshold)
         IN  IF m.score > score_threshold
             THEN <<[id |-> m.id,
                     content |-> DictGet(m.metadata, "content", ""),
                     title |-> DictGet(m.metadata, "title", ""),
                     score |-> m.score,
                     metadata |-> m.metadata]>> \o rest
             ELSE rest

\* step 3: the matches at or above the threshold, formatted, order kept
RECURSIVE FormatMatches(_, _)
FormatMatches(matches, score_threshold) ==
    IF matches = <<>> THEN <<>>
    ELSE LET m == Head(matches)
             rest == FormatMatches(Tail(matches), score_threshold)
         IN  IF m.score >= score_threshold
             THEN <<[id |-> m.id,
                     content |-> DictGet(m.metadata, "content", ""),
                     title |-> DictGet(m.metadata, "title", ""),
                     score |-> m.score,
                     metadata |-> m.metadata]>> \o rest
             ELSE rest

\* a search without its try/except: a failing provider call leaves search
SearchRunRaises(st, client, tenant_id, top_k, score_threshold, fail, score) ==
    IF ~client
        THEN [docs |-> <<>>, raised |-> FALSE, filters |-> <<>>, matches |-> <<>>]
    ELSE IF fail \in {"embed", "index"}
        THEN [docs |-> <<>>, raised |-> TRUE, filters |-> <<>>, matches |-> <<>>]
    ELSE IF fail = "query"
        THEN [docs |-> <<>>, raised |-> TRUE, filters |-> <<[tenant_id |-> tenant_id]>>,
              matches |-> <<>>]
    ELSE LET matches == Query(st, top_k, [tenant_id |-> tenant_id], score)
         IN  [docs |-> FormatMatches(matches, score_threshold),
              raised |-> FALSE,
              filters |-> <<[tenant_id |-> tenant_id]>>,
              matches |-> matches]

\* One run of search.  raised: an exception left search; filters: the filter
\* of every index.query call issued; matches: what index.query returned;
\* docs: the returned list.
SearchRun(st, client, tenant_id, top_k, score_threshold, fail, score) ==
    IF ~client
        THEN [docs |-> <<>>, raised |-> FALSE, filters |-> <<>>, matches |-> <<>>]
    ELSE IF fail \in {"embed", "index"}
        THEN [docs |-> <<>>, raised |-> FALSE, filters |-> <<>>, matches |-> <<>>]
    ELSE IF fail = "query"
        THEN [docs |-> <<>>, raised |-> FALSE, filters |-> <<SearchFilter(tenant_id)>>,
              matches |-> <<>>]
    ELSE LET matches == Query(st, top_k, SearchFilter(tenant_id), score)
         IN  [docs |-> FormatMatches(matches, score_threshold),
              raised |-> FALSE,
              filters |-> <<SearchFilter(tenant_id)>>,
              matches |-> matches]

\* search on the object self; without the index, self.pc.Index raises
Search(self, q, top_k, score_threshold, fail, score) ==
    /\ kbOps < MaxKbOps
    /\ (self.pc /\ ~index_exists) => fail \in {"embed", "index"}
    /\ LET r == SearchRun(store, self.pc, self.tenant_id, top_k, score_threshold,
                          fail, score)
       IN  kb' = [op |-> "search", tenant |-> self.tenant_id, client |-> self.pc,
                  query |-> q, top_k |-> top_k,
                  score_threshold |-> score_threshold,
                  result |-> r.docs, raised |-> r.raised, filters |-> r.filters,
                  matches |-> [k \in 1..Len(r.matches) |->
                                  [id |-> r.matches[k].id, score |-> r.matches[k].score]]]
    /\ kbOps' = kbOps + 1
    /\ UNCHANGED <<clientVars, store, dbVars>>

(***************************************************************************)
(* The database: tenants, conversations, messages.                         *)
(***************************************************************************)
Procs == {1, 2}
Sessions == {"s1"}
Channels == {"chat", "sms"}
Statuses == {"resolved", "escalated", "pending", "abandoned"}

\* ended_at IS NULL
NoTime == 0

\* Tenant.config of the two tenants: acme is configured, globex has {}
AcmeConfig ==
    [ai_config |-> [escalation_keywords |-> <<"refund", "Manager">>,
                    fallback_responses |-> <<"Please hold for an agent.">>,
                    system_prompt |-> "You are the Acme assistant."],
     branding |-> [company_name |-> "Acme", support_email |-> "help@acme.test"]]
EmptyConfig == [k \in {} |-> ""]
TenantConfig(slug) == IF slug = "acme" THEN AcmeConfig ELSE EmptyConfig

\* _get_tenant_uuid: the id of the tenant row with this slug
TenantUuid(slug) == "uuid-" \o slug

\* the positions of S in the order of ORDER BY created_at ASC (rows of equal
\* created_at in insertion order)
RECURSIVE OrderByCreatedAt(_, _)
OrderByCreatedAt(msgs, S) ==
    IF S = {} THEN <<>>
    ELSE LET first == CHOOSE i \in S : \A j \in S :
                          \/ msgs[i].created_at < msgs[j].created_at
                          \/ msgs[i].created_at = msgs[j].created_at /\ i <= j
         IN  <<first>> \o OrderByCreatedAt(msgs, S \ {first})

\* a lookup that also matches conversations that have ended
ActiveConversationsEnded(convs, tenant_uuid, session_id) ==
    {i \in 1..Len(convs) : /\ convs[i].tenant_id = tenant_uuid
                           /\ convs[i].session_id = session_id}

\* the query of get_or_create_conversation: the ids of the rows it matches
ActiveConversations(convs, tenant_uuid, session_id) ==
    {i \in 1..Len(convs) : /\ convs[i].tenant_id = tenant_uuid
                           /\ convs[i].session_id = session_id
                           /\ convs[i].ended_at = NoTime}

\* the query of routes.sms_webhook and routes.voice_transcript_webhook: the
\* rows of the session on the channel, ended or not
ChannelConversations(convs, tenant_uuid, session_id, channel) ==
    {i \in 1..Len(convs) : /\ convs[i].tenant_id = tenant_uuid
                           /\ convs[i].session_id = session_id
                           /\ convs[i].channel = channel}

\* the row Conversation(tenant_id, session_id, channel) adds, the other
\* columns at their defaults; its id is its position
NewConversation(tenant_uuid, session_id, channel, t) ==
    [tenant_id |-> tenant_uuid, session_id |-> session_id, channel |-> channel,
     started_at |-> t, ended_at |-> NoTime, resolution_status |-> "pending",
     escalated |-> FALSE, extra_data |-> EmptyMeta]

\* a save_message that rewrites the conversation's latest row of the same role
SaveMessageRowsReplace(msgs, tenant_uuid, conversation_id, role, content, metadata, t) ==
    LET same == {i \in 1..Len(msgs) : /\ msgs[i].conversation_id = conversation_id
                                      /\ msgs[i].role = role}
        row == [conversation_id |-> conversation_id, tenant_id |-> tenant_uuid,
                role |-> role, content |-> content, extra_data |-> metadata,
                created_at |-> t]
    IN  IF same = {} THEN Append(msgs, row) ELSE [msgs EXCEPT ![Max(same)] = row]

\* save_message: the table after the call made at time t
SaveMessageRows(msgs, tenant_uuid, conversation_id, role, content, metadata, t) ==
    Append(msgs, [conversation_id |-> conversation_id, tenant_id |-> tenant_uuid,
                  role |-> role, content |-> content, extra_data |-> metadata,
                  created_at |-> t])

\* a get_conversation_history that filters on the conversation id alone
HistoryRowsAnyTenant(msgs, tenant_uuid, conversation_id, limit) ==
    LET hit == {i \in 1..Len(msgs) : msgs[i].conversation_id = conversation_id}
        ordered == OrderByCreatedAt(msgs, hit)
        n == IF Len(ordered) < limit THEN Len(ordered) ELSE limit
    IN  [k \in 1..n |-> msgs[ordered[k]]]

\* get_conversation_history: the rows returned
HistoryRows(msgs, tenant_uuid, conversation_id, limit) ==
    LET hit == {i \in 1..Len(msgs) : /\ msgs[i].conversation_id = conversation_id
                                     /\ msgs[i].tenant_id = tenant_uuid}
        ordered == OrderByCreatedAt(msgs, hit)
        n == IF Len(ordered) < limit THEN Len(ordered) ELSE limit
    IN  [k \in 1..n |-> msgs[ordered[k]]]

\* update_conversation_status finds its row
ConversationFound(convs, tenant_uuid, conversation_id) ==
    /\ conversation_id \in 1..Len(convs)
    /\ convs[conversation_id].tenant_id = tenant_uuid

\* an update_conversation_status that never stamps ended_at
UpdatedConversationNoEnd(c, status, escalated, t) ==
    LET c1 == IF status # {} THEN [c EXCEPT !.resolution_status = CHOOSE v \in status : TRUE]
              ELSE c
    IN  IF escalated # {} THEN [c1 EXCEPT !.escalated = CHOOSE v \in escalated : TRUE]
        ELSE c1

\* an update_conversation_status that stamps ended_at on every terminal status
UpdatedConversationRestamp(c, status, escalated, t) ==
    LET c1 == IF status # {} THEN [c EXCEPT !.resolution_status = CHOOSE v \in status : TRUE]
              ELSE c
        c2 == IF escalated # {} THEN [c1 EXCEPT !.escalated = CHOOSE v \in escalated : TRUE]
              ELSE c1
    IN  IF status \subseteq {"resolved", "escalated"} /\ status # {}
        THEN [c2 EXCEPT !.ended_at = t]
        ELSE c2

\* update_conversation_status: the row after the call made at time t.  An
\* argument that is None is the empty set, a given value v is {v}.
UpdatedConversation(c, status, escalated, t) ==
    LET c1 == IF status # {} THEN [c EXCEPT !.resolution_status = CHOOSE v \in status : TRUE]
              ELSE c
        c2 == IF escalated # {} THEN [c1 EXCEPT !.escalated = CHOOSE v \in escalated : TRUE]
              ELSE c1
    IN  IF status \subseteq {"resolved", "escalated"} /\ status # {} /\ c2.ended_at = NoTime
        THEN [c2 EXCEPT !.ended_at = t]
        ELSE c2

\* commit() of a row that was loaded as loaded and assigned to become new: the
\* UPDATE sets the columns whose value was changed and no other, on the row
\* as it is in the table by then (cur)
Flushed(cur, loaded, new) ==
    [f \in DOMAIN cur |-> IF new[f] # loaded[f] THEN new[f] ELSE cur[f]]

(***************************************************************************)
(* ChatService: the pure parts.                                            *)
(***************************************************************************)
\* The characters str.lower() changes to a character a string constant of
\* this module can hold and, position by position, that character; capital
\* sigma apart.
UpperLetters ==
    "ABCDEFGHIJKLMNOPQRSTUVWXYZÀÁÂÃÄÅÆÇÈÉÊËÌÍÎÏÐÑÒÓÔÕÖØÙÚÛÜÝÞƂƄƇƋƎƑƘƠƢƤƦƧƩƬƮƯƱƲƳƵƷƸƼǄǅǇǈǊǋǍǏǑǓǕǗǙǛǞǠǢǤǦǨǪǬǮǱǲǴǶǷǸǺǼǾΆΈΉΊΌΎΏΑΒΓΔΕΖΗΘΙΚΛΜΝΞΟΠΡΤΥΦΧΨΩΪΫϏϘϚϜϞϠϢϤϦϨϪϬϮϴϷϹϺҀҊҌҎҐҒҔҖҘҚҜҞҠҢҤҦҨҪҬҮҰҲҴҶҸҺҼҾӀӁӃӅӇӉӋӍӐӒӔӖӘӚӜӞӠӢӤӦӨӪӬӮӰӲӴӶӸӺӼӾᎰᎱᎲᎳᎴᎵᎶᎷᎸᎹᎺᎻᎼᎽᎾᎿᏀᏁᏂᏃᏄᏅᏆᏇᏈᏉᏊᏋᏌᏍᏎᏏᏐᏑᏒᏓᏔᏕᏖᏗᏘᏙᏚᏛᏜᏝᏞᏟᏠᏡᏢᏣᏤᏥᏦᏧᏨᏩᏪᏫᏬᏭᏮᏯᏰᏱᏲᏳᏴᏵᲐᲑᲒᲓᲔᲕᲖᲗᲘᲙᲚᲛᲜᲝᲞᲟᲠᲡᲢᲣᲤᲥᲦᲧᲨᲩᲪᲫᲬᲭᲮᲯᲰᲱᲲᲳᲴᲵᲶᲷᲸᲹᲺᲽᲾᲿẀẂẄẆẈẊẌẎẐẒẔẞẠẢẤẦẨẪẬẮẰẲẴẶẸẺẼẾỀỂỄỆỈỊỌỎỐỒỔỖỘỚỜỞỠỢỤỦỨỪỬỮỰỲỴỶỸỺỼỾᾈᾉᾊᾋᾌᾍᾎᾏᾘᾙᾚᾛᾜᾝᾞᾟᾨᾩᾪᾫᾬᾭᾮᾯᾸᾹᾼῌῘῙῨῩῬῼↃⒶⒷⒸⒹⒺⒻⒼⒽⒾⒿⓀⓁⓂⓃⓄⓅⓆⓇⓈⓉⓊⓋⓌⓍⓎⓏⲀⲂⲄⲆⲈⲊⲌⲎⲐⲒⲔⲖⲘⲚⲜⲞⲠⲢⲤⲦⲨⲪⲬⲮⲰⲲⲴⲶⲸⲺⲼⲾⳀⳂⳄⳆⳈⳊⳌⳎⳐⳒⳔⳖⳘⳚⳜⳞⳠⳢⳫⳭⳲꚀꚂꚄꚆꚈꚊꚌꚎꚐꚒꚔꚖꚘꚚꞀꞂꞄꞆꞋꞐꞒꞖꞘꞚꞜꞞꞠꞢꞤꞦꞨꞰꞱꞲꞴꞶꞸꞺꞼꞾꟀꟂꟄꟅꟆꟇꟉꟐꟖꟘꟵ"
LowerLetters ==
    "abcdefghijklmnopqrstuvwxyzàáâãäåæçèéêëìíîïðñòóôõöøùúûüýþƃƅƈƌǝƒƙơƣƥʀƨʃƭʈưʊʋƴƶʒƹƽǆǆǉǉǌǌǎǐǒǔǖǘǚǜǟǡǣǥǧǩǫǭǯǳǳǵƕƿǹǻǽǿάέήίόύώαβγδεζηθικλμνξοπρτυφχψωϊϋϗϙϛϝϟϡϣϥϧϩϫϭϯθϸϲϻҁҋҍҏґғҕҗҙқҝҟҡңҥҧҩҫҭүұҳҵҷҹһҽҿӏӂӄӆӈӊӌӎӑӓӕӗәӛӝӟӡӣӥӧөӫӭӯӱӳӵӷӹӻӽӿꮀꮁꮂꮃꮄꮅꮆꮇꮈꮉꮊꮋꮌꮍꮎꮏꮐꮑꮒꮓꮔꮕꮖꮗꮘꮙꮚꮛꮜꮝꮞꮟꮠꮡꮢꮣꮤꮥꮦꮧꮨꮩꮪꮫꮬꮭꮮꮯꮰꮱꮲꮳꮴꮵꮶꮷꮸꮹꮺꮻꮼꮽꮾꮿᏸᏹᏺᏻᏼᏽაბგდევზთიკლმნოპჟრსტუფქღყშჩცძწჭხჯჰჱჲჳჴჵჶჷჸჹჺჽჾჿẁẃẅẇẉẋẍẏẑẓẕßạảấầẩẫậắằẳẵặẹẻẽếềểễệỉịọỏốồổỗộớờởỡợụủứừửữựỳỵỷỹỻỽỿᾀᾁᾂᾃᾄᾅᾆᾇᾐᾑᾒᾓᾔᾕᾖᾗᾠᾡᾢᾣᾤᾥᾦᾧᾰᾱᾳῃῐῑῠῡῥῳↄⓐⓑⓒⓓⓔⓕⓖⓗⓘⓙⓚⓛⓜⓝⓞⓟⓠⓡⓢⓣⓤⓥⓦⓧⓨⓩⲁⲃⲅⲇⲉⲋⲍⲏⲑⲓⲕⲗⲙⲛⲝⲟⲡⲣⲥⲧⲩⲫⲭⲯⲱⲳⲵⲷⲹⲻⲽⲿⳁⳃⳅⳇⳉⳋⳍⳏⳑⳓⳕⳗⳙⳛⳝⳟⳡⳣⳬⳮⳳꚁꚃꚅꚇꚉꚋꚍꚏꚑꚓꚕꚗꚙꚛꞁꞃꞅꞇꞌꞑꞓꞗꞙꞛꞝꞟꞡꞣꞥꞧꞩʞʇʝꞵꞷꞹꞻꞽꞿꟁꟃꞔʂᶎꟈꟊꟑꟗꟙꟶ"

\* The characters str.lower() changes to a character no string constant of
\* this module can hold, each with the code point of that character, which
\* stands for it.
LowerOthers ==
    LET upper == "ƁƆƉƊƏƐƓƔƖƗƜƝƟϽϾϿႠႡႢႣႤႥႦႧႨႩႪႫႬႭႮႯႰႱႲႳႴႵႶႷႸႹႺႻႼႽႾႿჀჁჂჃჄჅჇჍᎠᎡᎢᎣᎤᎥᎦᎧᎨᎩᎪᎫᎬᎭᎮᎯᾺΆῈΈῊΉῚΊῪΎῸΌῺΏꞍꞪꞫꞬꞭꞮꞳ"
        points == <<"U+0253", "U+0254", "U+0256", "U+0257", "U+0259", "U+025B", "U+0260", "U+0263",
                   "U+0269", "U+0268", "U+026F", "U+0272", "U+0275", "U+037B", "U+037C", "U+037D",
                   "U+2D00", "U+2D01", "U+2D02", "U+2D03", "U+2D04", "U+2D05", "U+2D06", "U+2D07",
                   "U+2D08", "U+2D09", "U+2D0A", "U+2D0B", "U+2D0C", "U+2D0D", "U+2D0E", "U+2D0F",
                   "U+2D10", "U+2D11", "U+2D12", "U+2D13", "U+2D14", "U+2D15", "U+2D16", "U+2D17",
                   "U+2D18", "U+2D19", "U+2D1A", "U+2D1B", "U+2D1C", "U+2D1D", "U+2D1E", "U+2D1F",
                   "U+2D20", "U+2D21", "U+2D22", "U+2D23", "U+2D24", "U+2D25", "U+2D27", "U+2D2D",
                   "U+AB70", "U+AB71", "U+AB72", "U+AB73", "U+AB74", "U+AB75", "U+AB76", "U+AB77",
                   "U+AB78", "U+AB79", "U+AB7A", "U+AB7B", "U+AB7C", "U+AB7D", "U+AB7E", "U+AB7F",
                   "U+1F70", "U+1F71", "U+1F72", "U+1F73", "U+1F74", "U+1F75", "U+1F76", "U+1F77",
                   "U+1F7A", "U+1F7B", "U+1F78", "U+1F79", "U+1F7C", "U+1F7D", "U+0265", "U+0266",
                   "U+025C", "U+0261", "U+026C", "U+026A", "U+AB53">>
    IN  [c \in {CharAt(upper, k) : k \in 0..(Len(upper) - 1)} |->
            points[CHOOSE k \in 1..Len(upper) : CharAt(upper, k - 1) = c]]

\* each upper-case letter's lower-case letter
LowerOf ==
    [c \in {CharAt(UpperLetters, k) : k \in 0..(Len(UpperLetters) - 1)} |->
        CharAt(LowerLetters,
               CHOOSE k \in 0..(Len(UpperLetters) - 1) : CharAt(UpperLetters, k) = c)]
    @@ LowerOthers

\* the cased characters and the case-ignorable characters of the final-sigma
\* rule of str.lower()
CasedLetters ==
    LET all == "ABCDEFGHIJKLMNOPQRSTUVWXYZabcdefghijklmnopqrstuvwxyzªµºÀÁÂÃÄÅÆÇÈÉÊËÌÍÎÏÐÑÒÓÔÕÖØÙÚÛÜÝÞßàáâãäåæçèéêëìíîïðñòóôõöøùúûüýþÿƀƁƂƃƄƅƆƇƈƉƊƋƌƍƎƏƐƑƒƓƔƕƖƗƘƙƚƛƜƝƞƟƠơƢƣƤƥƦƧƨƩƪƫƬƭƮƯưƱƲƳƴƵƶƷƸƹƺƼƽƾƿǄǅǆǇǈǉǊǋǌǍǎǏǐǑǒǓǔǕǖǗǘǙǚǛǜǝǞǟǠǡǢǣǤǥǦǧǨǩǪǫǬǭǮǯǰǱǲǳǴǵǶǷǸǹǺǻǼǽǾǿʀʁʂʃʄʅʆʇʈʉʊʋʌʍʎʏʐʑʒʓʕʖʗʘʙʚʛʜʝʞʟʠʡʢʣʤʥʦʧʨʩʪʫʬʭʮʯΆΈΉΊΌΎΏΐΑΒΓΔΕΖΗΘΙΚΛΜΝΞΟΠΡΣΤΥΦΧΨΩΪΫάέήίΰαβγδεζηθικλμνξοπρςστυφχψωϊϋόύώϏϐϑϒϓϔϕϖϗϘϙϚϛϜϝϞϟϠϡϢϣϤϥϦϧϨϩϪϫϬϭϮϯϰϱϲϳϴϵϷϸϹϺϻϼϽϾϿҀҁҊҋҌҍҎҏҐґҒғҔҕҖҗҘҙҚқҜҝҞҟҠҡҢңҤҥҦҧҨҩҪҫҬҭҮүҰұҲҳҴҵҶҷҸҹҺһҼҽҾҿӀӁӂӃӄӅӆӇӈӉӊӋӌӍӎӏӐӑӒӓӔӕӖӗӘәӚӛӜӝӞӟӠӡӢӣӤӥӦӧӨөӪӫӬӭӮӯӰӱӲӳӴӵӶӷӸӹӺӻӼӽӾӿրցւփքօֆևֈႠႡႢႣႤႥႦႧႨႩႪႫႬႭႮႯႰႱႲႳႴႵႶႷႸႹႺႻႼႽႾႿჀჁჂჃჄჅჇჍაბგდევზთიკლმნოპჟრსტუფქღყშჩცძწჭხჯჰჱჲჳჴჵჶჷჸჹჺჽჾჿᎠᎡᎢᎣᎤᎥᎦᎧᎨᎩᎪᎫᎬᎭᎮᎯᎰᎱᎲᎳᎴᎵᎶᎷᎸᎹᎺᎻᎼᎽᎾᎿᏀᏁᏂᏃᏄᏅᏆᏇᏈᏉᏊᏋᏌᏍᏎᏏᏐᏑᏒᏓᏔᏕᏖᏗᏘᏙᏚᏛᏜᏝᏞᏟᏠᏡᏢᏣᏤᏥᏦᏧᏨᏩᏪᏫᏬᏭᏮᏯᏰᏱᏲᏳᏴᏵᏸᏹᏺᏻᏼᏽᲀᲁᲂᲃᲄᲅᲆᲇᲈᲐᲑᲒᲓᲔᲕᲖᲗᲘᲙᲚᲛᲜᲝᲞᲟᲠᲡᲢᲣᲤᲥᲦᲧᲨᲩᲪᲫᲬᲭᲮᲯᲰᲱᲲᲳᲴᲵᲶᲷᲸᲹᲺᲽᲾᲿᶀᶁᶂᶃᶄᶅᶆᶇᶈᶉᶊᶋᶌᶍᶎᶏᶐᶑᶒᶓᶔᶕᶖᶗᶘᶙᶚẀẁẂẃẄẅẆẇẈẉẊẋẌẍẎẏẐẑẒẓẔẕẖẗẘẙẚẛẜẝẞẟẠạẢảẤấẦầẨẩẪẫẬậẮắẰằẲẳẴẵẶặẸẹẺẻẼẽẾếỀềỂểỄễỆệỈỉỊịỌọỎỏỐốỒồỔổỖỗỘộỚớỜờỞởỠỡỢợỤụỦủỨứỪừỬửỮữỰựỲỳỴỵỶỷỸỹỺỻỼỽỾỿᾀᾁᾂᾃᾄᾅᾆᾇᾈᾉᾊᾋᾌᾍᾎᾏᾐᾑᾒᾓᾔᾕᾖᾗᾘᾙᾚᾛᾜᾝᾞᾟᾠᾡᾢᾣᾤᾥᾦᾧᾨᾩᾪᾫᾬᾭᾮᾯᾰᾱᾲᾳᾴᾶᾷᾸᾹᾺΆᾼιῂῃῄῆῇῈΈῊΉῌῐῑῒΐῖῗῘῙῚΊῠῡῢΰῤῥῦῧῨῩῪΎῬῲῳῴῶῷῸΌῺΏῼↃↄⒶⒷⒸⒹⒺⒻⒼⒽⒾⒿⓀⓁⓂⓃⓄⓅⓆⓇⓈⓉⓊⓋⓌⓍⓎⓏⓐⓑⓒⓓⓔⓕⓖⓗⓘⓙⓚⓛⓜⓝⓞⓟⓠⓡⓢⓣⓤⓥⓦⓧⓨⓩⲀⲁⲂⲃⲄⲅⲆⲇⲈⲉⲊⲋⲌⲍⲎⲏⲐⲑⲒⲓⲔⲕⲖⲗⲘⲙⲚⲛⲜⲝⲞⲟⲠⲡⲢⲣⲤⲥⲦⲧⲨⲩⲪⲫⲬⲭⲮⲯⲰⲱⲲⲳⲴⲵⲶⲷⲸⲹⲺⲻⲼⲽⲾⲿⳀⳁⳂⳃⳄⳅⳆⳇⳈⳉⳊⳋⳌⳍⳎⳏⳐⳑⳒⳓⳔⳕⳖⳗⳘⳙⳚⳛⳜⳝⳞⳟⳠⳡⳢⳣⳤⳫⳬⳭⳮⳲⳳꚀꚁꚂꚃꚄꚅꚆꚇꚈꚉꚊꚋꚌꚍꚎꚏꚐꚑꚒꚓꚔꚕꚖꚗꚘꚙꚚꚛꞀꞁꞂꞃꞄꞅꞆꞇꞋꞌꞍꞎꞐꞑꞒꞓꞔꞕꞖꞗꞘꞙꞚꞛꞜꞝꞞꞟꞠꞡꞢꞣꞤꞥꞦꞧꞨꞩꞪꞫꞬꞭꞮꞯꞰꞱꞲꞳꞴꞵꞶꞷꞸꞹꞺꞻꞼꞽꞾꞿꟀꟁꟂꟃꟄꟅꟆꟇꟈꟉꟊꟐꟑꟓꟕꟖꟗꟘꟙꟵꟶꟺꮀꮁꮂꮃꮄꮅꮆꮇꮈꮉꮊꮋꮌꮍꮎꮏꮐꮑꮒꮓꮔꮕꮖꮗꮘꮙꮚꮛꮜꮝꮞꮟꮠꮡꮢꮣꮤꮥꮦꮧꮨꮩꮪꮫꮬꮭꮮꮯꮰꮱꮲꮳꮴꮵꮶꮷꮸꮹꮺꮻꮼꮽꮾꮿ"
    IN  {CharAt(all, k) : k \in 0..(Len(all) - 1)}
\* (the grave accent is case-ignorable too and cannot stand in a string
\* constant of this module)
CaseIgnorable ==
    LET all == "'.:^¨­¯´·¸ʰʱʲʳʴʵʶʷʸʹʺʻʼʽʾʿˀˁ˂˃˄˅ˆˇˈˉˊˋˌˍˎˏːˑ˒˓˔˕˖˗˘˙˚˛˜˝˞˟ˠˡˢˣˤ˥˦˧˨˩˪˫ˬ˭ˮ˯˰˱˲˳˴˵˶˷˸˹˺˻˼˽˾˿΄΅·҃҄҅҆҇҈҉ְֱֲֳִֵֶַָׇֹֺֻּֽֿׁׂ֑֖֛֢֣֤֥֦֧֪ׅ֚֭֮֒֓֔֕֗֘֙֜֝֞֟֠֡֨֩֫֬֯ׄ״ۖۗۘۙۚۛۜ۝ۣ۟۠ۡۢۤۥۦ۪ۭۧۨ۫۬ަާިީުޫެޭޮޯް߲߫߬߭߮߯߰߱߳ߴߵߺ߽࢈࢐࢑࢙࢚࢛࢘࢜࢝࢞࢟ࣉ࣏࣐࣑࣒࣓࣊࣋࣌࣍࣎ࣔࣕࣖࣗࣘࣙࣚࣛࣜࣝࣞࣟ࣠࣡࣢ࣰࣱࣲࣣࣦࣩ࣭࣮࣯ࣶࣹࣺࣤࣥࣧࣨ࣪࣫࣬ࣳࣴࣵࣷࣸࣻࣼࣽࣾࣿঁ়ুূৃৄ্ৢৣ৾ઁં઼ુૂૃૄૅેૈ્ૢૣૺૻૼ૽૾૿ஂீ்ಁ಼ಿೆೌ್ೢೣඁ්ිීුූັິີຶື຺ຸູົຼໆ່້໊໋໌ໍ྄ཱྀྀྂྃ྆྇ྍྎྏྐྑྒྒྷྔྕྖྗྙྚྛྜྜྷྞྟྠྡྡྷྣྤྥྦྦྷྨྩྪྫྫྷྭྮྯྰྱྲླྴྵྶྷྸྐྵྺྻྼ࿆ႂႅႆႍႝჼ឴឵ិីឹឺុូួំ៉៊់៌៍៎៏័៑្៓ៗ៝ᢅᢆᢩᪧ᪵᪶᪷᪸᪹᪺᪽᪰᪱᪲᪳᪴᪻᪼᪾ᪿᫀ᫃᫄᫊᫁᫂᫅᫆᫇᫈᫉᫋ᫌᫍᫎᮀᮁᮢᮣᮤᮥᮨᮩ᮫ᮬᮭ᯦ᯨᯩᯭᯯᯰᯱ᳔᳢᳣᳤᳥᳦᳧᳨᳕᳖᳗᳘᳙᳜᳝᳞᳟᳭᳐᳑᳒᳚᳛᳠᳴᳸᳹ᶛᶜᶝᶞᶟᶠᶡᶢᶣᶤᶥᶦᶧᶨᶩᶪᶫᶬᶭᶮᶯᶰᶱᶲᶳᶴᶵᶶᶷᶸᶹᶺᶻᶼᶽᶾᶿ᷐᷎᷺᷂᷊᷏᷹᷽᷿᷷᷸᷀᷁᷃᷄᷅᷆᷇᷈᷉᷋᷌᷑᷒ᷓᷔᷕᷖᷗᷘᷙᷚᷛᷜᷝᷞᷟᷠᷡᷢᷣᷤᷥᷦᷧᷨᷩᷪᷫᷬᷭᷮᷯᷰᷱᷲᷳᷴ᷵᷻᷾᷶᷼᷍᾽᾿῀῁῍῎῏῝῞῟῭΅`´῾ₐₑₒₓₔₕₖₗₘₙₚₛₜ⃒⃓⃘⃙⃚⃐⃑⃔⃕⃖⃗⃛⃜⃝⃞⃟⃠⃡⃢⃣⃤⃥⃦⃪⃫゙゚⃨⃬⃭⃮⃯⃧⃩⃰⳯⳰⳱ⷠⷡⷢⷣⷤⷥⷦⷧⷨⷩⷪⷫⷬⷭⷮⷯⷰⷱⷲⷳⷴⷵⷶⷷⷸⷹⷺⷻⷼⷽⷾⷿ゛゜ゝゞーヽヾꓸꓹꓺꓻꓼꓽꚜꚝꚞꚟ꛰꛱ꞈ꞉꞊ꟲꟳꟴꟸꟹ꣄ꣅ꣠꣡꣢꣣꣤꣥꣦꣧꣨꣩꣪꣫꣬꣭꣮꣯꣰꣱ꣿꦀꦁꦂ꦳ꦶꦷꦸꦹꦼꦽꧏꧥꧦꪴꪰꪲꪳꪷꪸꪾ꪿꫁ꫝꫬꫭꫳꫴ꫶ꯥꯨ꯭﮲﮳﮴﮵﮶﮷﮸﮹﮺﮻﮼﮽﮾﮿﯀﯁﯂﻿ﾞﾟ￣￹￺￻"
    IN  {CharAt(all, k) : k \in 0..(Len(all) - 1)}

\* the capital sigma at position i of s is final: a cased letter precedes
\* it and none follows it, case-ignorable characters skipped
FinalSigma(s, i) ==
    LET before == {j \in 0..(i - 1) : CharAt(s, j) \notin CaseIgnorable}
        after == {j \in (i + 1)..(Len(s) - 1) : CharAt(s, j) \notin CaseIgnorable}
    IN  /\ before # {}
        /\ CharAt(s, Max(before)) \in CasedLetters
        /\ after # {} => CharAt(s, Min(after)) \notin CasedLetters

\* str.lower(), as the sequence of the characters of its result: the k-th
\* entry is what the k-th character of s becomes (no character a string
\* constant of this module can hold becomes more than one character)
Lower(s) ==
    [k \in 1..Len(s) |->
        IF CharAt(s, k - 1) = "Σ"
        THEN (IF FinalSigma(s, k - 1) THEN "ς" ELSE "σ")
        ELSE IF CharAt(s, k - 1) \in DOMAIN LowerOf THEN LowerOf[CharAt(s, k - 1)]
        ELSE CharAt(s, k - 1)]

\* sub in s, of two strings or of two sequences of characters
Contains(s, sub) ==
    \E i \in 0..(Len(s) - Len(sub)) : SubSeq(s, i + 1, i + Len(sub)) = sub

DefaultFallback ==
    "I'm having trouble processing that right now. Please try again or contact support."
ErrorMessage ==
    "I apologize, but I'm experiencing technical difficulties right now. "
    \o "Please try again in a moment, or contact our support team for immediate assistance."
DefaultSystemPrompt == "You are a helpful customer support assistant."

\* confidences, in hundredths
ConfidenceStop == 90
ConfidenceOther == 70
ConfidenceFallback == 50
ConfidenceError == 0
MessageThreshold == 999
HistoryLimit == 10

\* self.config.get("ai_config", {})
AiConfig(slug) == DictGet(TenantConfig(slug), "ai_config", EmptyConfig)

\* an escalation check whose volume rule fires from the first message on
CheckEscalationEager(slug, user_message, ai_response, message_count) ==
    LET keywords == DictGet(AiConfig(slug), "escalation_keywords", <<>>)
        combined_text == Lower(user_message \o " " \o ai_response)
    IN  \/ \E k \in 1..Len(keywords) : Contains(combined_text, Lower(keywords[k]))
        \/ message_count >= 1

\* a keyword rule that compares the texts as they are written
CheckEscalationCaseSensitive(slug, user_message, ai_response, message_count) ==
    LET keywords == DictGet(AiConfig(slug), "escalation_keywords", <<>>)
        combined_text == user_message \o " " \o ai_response
    IN  \/ \E k \in 1..Len(keywords) : Contains(combined_text, keywords[k])
        \/ message_count >= MessageThreshold

\* _check_escalation
CheckEscalation(slug, user_message, ai_response, message_count) ==
    LET keywords == DictGet(AiConfig(slug), "escalation_keywords", <<>>)
        combined_text == Lower(user_message \o " " \o ai_response)
    IN  \/ \E k \in 1..Len(keywords) : Contains(combined_text, Lower(keywords[k]))
        \/ message_count >= MessageThreshold

\* len(conversation.messages): the rows of the relationship
MessageCount(msgs, conversation_id) ==
    Cardinality({i \in 1..Len(msgs) : msgs[i].conversation_id = conversation_id})

\* _build_context
RECURSIVE JoinLines(_)
JoinLines(parts) ==
    IF parts = <<>> THEN ""
    ELSE IF Len(parts) = 1 THEN parts[1]
    ELSE parts[1] \o "\n" \o JoinLines(Tail(parts))

BuildContext(documents) ==
    IF documents = <<>> THEN ""
    ELSE JoinLines(<<"Here is relevant information from our knowledge base:\n">>
                   \o [i \in 1..Len(documents) |->
                         "\n[Source " \o ToString(i) \o ": " \o documents[i].title
                         \o "]\n" \o documents[i].content \o "\n"])

\* _build_system_prompt
BuildSystemPrompt(slug, context) ==
    LET branding == DictGet(TenantConfig(slug), "branding", EmptyConfig)
        base_prompt == DictGet(AiConfig(slug), "system_prompt", DefaultSystemPrompt)
        business_name == DictGet(branding, "company_name", slug)
        business_email == DictGet(branding, "support_email", "")
        p1 == base_prompt \o "\n\nCompany: " \o business_name
        p2 == IF business_email # "" THEN p1 \o "\nSupport Email: " \o business_email
              ELSE p1
    IN  IF context # "" THEN p2 \o "\n\n" \o context ELSE p2

\* conversation_history[-10:]
LastN(seq, n) == IF Len(seq) <= n THEN seq ELSE SubSeq(seq, Len(seq) - n + 1, Len(seq))

\* the messages array _generate_response sends to the model
LlmMessages(slug, user_message, conversation_history, context) ==
    LET recent == LastN(conversation_history, HistoryLimit)
        head == <<[role |-> "system", content |-> BuildSystemPrompt(slug, context)]>>
                \o [i \in 1..Len(recent) |->
                      [role |-> recent[i].role, content |-> recent[i].content]]
    IN  IF \/ conversation_history = <<>>
           \/ conversation_history[Len(conversation_history)].content # user_message
        THEN Append(head, [role |-> "user", content |-> user_message])
        ELSE head

\* what the language-model call does: it raises (ok = FALSE) or it returns a
\* completion with a finish reason
LlmOutcomes ==
    {[ok |-> FALSE, text |-> "", finish_reason |-> ""],
     [ok |-> TRUE, text |-> "We are open 9 to 5.", finish_reason |-> "stop"],
     [ok |-> TRUE, text |-> "A manager will call you", finish_reason |-> "length"]}

\* _generate_response: (response_text, confidence_score)
GenerateResponse(slug, llm) ==
    IF llm.ok
    THEN [text |-> llm.text,
          confidence |-> IF llm.finish_reason = "stop" THEN ConfidenceStop
                         ELSE ConfidenceOther]
    ELSE LET fallback_responses ==
                 DictGet(AiConfig(slug), "fallback_responses", <<DefaultFallback>>)
         IN  IF fallback_responses # <<>>
             THEN [text |-> fallback_responses[1], confidence |-> ConfidenceFallback]
             ELSE [text |-> DefaultFallback, confidence |-> ConfidenceFallback]

\* _error_response; str(uuid4()) is an id no row has
ErrorResponse(session_id) ==
    [response |-> ErrorMessage, escalate |-> TRUE, confidence |-> ConfidenceError,
     session_id |-> session_id, conversation_id |-> "fresh-uuid"]

(***************************************************************************)
(* Requests.  A handler that makes several database round trips is one     *)
(* action per round trip: every request has its own database session, the  *)
(* sessions share no lock and no transaction spans two round trips, so the *)
(* round trips of two requests interleave freely.  A reading of the clock  *)
(* that the code makes between two round trips is a step of its own: other *)
(* requests read the clock and commit before and after it.                 *)
(*                                                                         *)
(* The fail input of a query step is the query raising.  The fail input of *)
(* a commit step is "none", "commit" (the INSERT, the UPDATE or the COMMIT *)
(* raises: nothing is written) or "refresh" (the rows are written and the  *)
(* SELECT the code sends next, db.refresh() or the reload of an object the *)
(* commit has expired, raises).                                            *)
(***************************************************************************)
IdleCall == [pc |-> "idle"]

\* ret[p] and db while a call runs that has not returned: its caller holds
\* no result of it
NoReturn == [op |-> "none"]

Returns(p, r) ==
    /\ call' = [call EXCEPT ![p] = IdleCall]
    /\ ret' = [ret EXCEPT ![p] = r]

\* the readings datetime.utcnow() can give next
Clock(dt) == now + dt

\* the locals c of a request at step pc, with local name set to v
Goes(c, step, name, v) ==
    [f \in DOMAIN c \cup {name} |->
        IF f = name THEN v ELSE IF f = "pc" THEN step ELSE c[f]]

(***************************************************************************)
(* DatabaseService.get_or_create_conversation                              *)
(***************************************************************************)
GocReturn(c, raised, id, created) ==
    [op |-> "get_or_create_conversation", tenant |-> c.tenant, session |-> c.session,
     channel |-> c.channel, raised |-> raised, conversation_id |-> id,
     created |-> created]

\* the call starts and runs its query; the query has no ORDER BY, so .first()
\* is any of the rows it matches
GocStart(p, t, sid, ch, fail) ==
    /\ call[p].pc = "idle"
    /\ LET c == [tenant |-> t, session |-> sid, channel |-> ch]
           found == ActiveConversations(conversations, TenantUuid(t), sid)
       IN  IF fail THEN Returns(p, GocReturn(c, TRUE, 0, FALSE))
           ELSE IF found # {}
               THEN \E id \in found : Returns(p, GocReturn(c, FALSE, id, FALSE))
           ELSE /\ call' = [call EXCEPT ![p] =
                        [pc |-> "goc_new", tenant |-> t, session |-> sid,
                         channel |-> ch]]
                /\ ret' = [ret EXCEPT ![p] = NoReturn]
    /\ dbOps' = dbOps + 1
    /\ UNCHANGED <<conversations, messages, now, db, kbVars>>

\* no row was found: Conversation(..., started_at=datetime.utcnow(), ...) is
\* built, for a direct call and for step 1 of process_message
GocNew(p, dt) ==
    /\ call[p].pc \in {"goc_new", "pm_new"}
    /\ now' = Clock(dt)
    /\ call' = [call EXCEPT ![p] =
           Goes(call[p], IF call[p].pc = "goc_new" THEN "goc_insert" ELSE "pm_insert",
                "started_at", Clock(dt))]
    /\ UNCHANGED <<conversations, messages, ret, db, dbOps, kbVars>>

\* add, commit, refresh
GocInsert(p, fail) ==
    /\ call[p].pc = "goc_insert"
    /\ LET c == call[p]
       IN  IF fail = "commit"
           THEN /\ Returns(p, GocReturn(c, TRUE, 0, FALSE))
                /\ UNCHANGED conversations
           ELSE /\ conversations' = Append(conversations,
                        NewConversation(TenantUuid(c.tenant), c.session, c.channel,
                                        c.started_at))
                /\ IF fail = "refresh"
                   THEN Returns(p, GocReturn(c, TRUE, 0, FALSE))
                   ELSE Returns(p, GocReturn(c, FALSE, Len(conversations) + 1, TRUE))
    /\ UNCHANGED <<messages, now, db, dbOps, kbVars>>

(***************************************************************************)
(* DatabaseService.save_message, get_conversation_history,                 *)
(* update_conversation_status, called on their own.                        *)
(***************************************************************************)
\* the call starts: _get_tenant_uuid
SaveMessage(p, t, cid, role, content, md, fail) ==
    /\ call[p].pc = "idle"
    /\ IF fail
       THEN /\ db' = [op |-> "save_message", raised |-> TRUE, seq |-> dbOps + 1]
            /\ UNCHANGED call
       ELSE /\ call' = [call EXCEPT ![p] =
                   [pc |-> "sm_new", tenant |-> t, conv |-> cid, role |-> role,
                    content |-> content, extra_data |-> md, seq |-> dbOps + 1]]
            /\ db' = NoReturn
    /\ dbOps' = dbOps + 1
    /\ UNCHANGED <<conversations, messages, now, ret, kbVars>>

\* Message(..., created_at=datetime.utcnow()) is built, for a direct call and
\* for steps 2 and 8 of process_message
SaveMessageNew(p, dt) ==
    /\ call[p].pc \in {"sm_new", "pm_user", "pm_asst"}
    /\ now' = Clock(dt)
    /\ call' = [call EXCEPT ![p] =
           Goes(call[p],
                IF call[p].pc = "sm_new" THEN "sm_commit"
                ELSE IF call[p].pc = "pm_user" THEN "pm_save_user"
                ELSE "pm_save_asst",
                "created_at", Clock(dt))]
    /\ UNCHANGED <<conversations, messages, ret, db, dbOps, kbVars>>

\* add, commit, refresh; the INSERT of a row whose conversation id no
\* conversation has raises
SaveMessageCommit(p, fail) ==
    /\ call[p].pc = "sm_commit"
    /\ LET c == call[p]
       IN  IF fail = "commit" \/ c.conv \notin 1..Len(conversations)
           THEN /\ db' = [op |-> "save_message", raised |-> TRUE, seq |-> c.seq]
                /\ UNCHANGED messages
           ELSE /\ messages' = SaveMessageRows(messages, TenantUuid(c.tenant), c.conv,
                                               c.role, c.content, c.extra_data,
                                               c.created_at)
                /\ db' = [op |-> "save_message", raised |-> (fail = "refresh"),
                          seq |-> c.seq]
    /\ call' = [call EXCEPT ![p] = IdleCall]
    /\ UNCHANGED <<conversations, now, ret, dbOps, kbVars>>

GetConversationHistory(t, cid, limit) ==
    /\ db' = [op |-> "get_conversation_history", tenant |-> t,
              conversation_id |-> cid, limit |-> limit, raised |-> FALSE,
              seq |-> dbOps + 1,
              result |-> HistoryRows(messages, TenantUuid(t), cid, limit)]
    /\ dbOps' = dbOps + 1
    /\ UNCHANGED <<conversations, messages, now, call, ret, kbVars>>

\* update_conversation_status, its query: it loads the row, or the call
\* raises
UpdateConversationStatus(p, t, cid, status, escalated, fail) ==
    /\ call[p].pc = "idle"
    /\ IF fail \/ ~ConversationFound(conversations, TenantUuid(t), cid)
       THEN /\ db' = [op |-> "update_conversation_status", raised |-> TRUE,
                      seq |-> dbOps + 1]
            /\ UNCHANGED call
       ELSE /\ call' = [call EXCEPT ![p] =
                   [pc |-> "ucs_assign", tenant |-> t, conv |-> cid,
                    seq |-> dbOps + 1, status |-> status, escalated |-> escalated,
                    loaded |-> conversations[cid]]]
            /\ db' = NoReturn
    /\ dbOps' = dbOps + 1
    /\ UNCHANGED <<conversations, messages, now, ret, kbVars>>

\* the new values are assigned to the loaded row, for a direct call and for
\* step 9 of process_message; the clock is read when ended_at is stamped
UpdateConversationAssign(p, dt) ==
    /\ call[p].pc \in {"ucs_assign", "pm_assign"}
    /\ LET c == call[p]
           new == UpdatedConversation(c.loaded, c.status, c.escalated, Clock(dt))
       IN  /\ now' = IF new.ended_at # c.loaded.ended_at THEN Clock(dt) ELSE now
           /\ call' = [call EXCEPT ![p] =
                  Goes(c, IF c.pc = "ucs_assign" THEN "ucs_commit" ELSE "pm_update_commit",
                       "new", new)]
    /\ UNCHANGED <<conversations, messages, ret, db, dbOps, kbVars>>

\* commit, refresh.  db keeps the call that committed: its conversation, its
\* status argument and the row its query had found
UpdateConversationCommit(p, fail) ==
    /\ call[p].pc = "ucs_commit"
    /\ LET c == call[p]
       IN  IF fail = "commit"
           THEN /\ db' = [op |-> "update_conversation_status", raised |-> TRUE,
                          seq |-> c.seq]
                /\ UNCHANGED conversations
           ELSE /\ conversations' = [conversations EXCEPT ![c.conv] =
                        Flushed(@, c.loaded, c.new)]
                /\ db' = [op |-> "update_conversation_status",
                          raised |-> (fail = "refresh"), seq |-> c.seq,
                          conversation_id |-> c.conv, status |-> c.status,
                          found |-> c.loaded]
    /\ call' = [call EXCEPT ![p] = IdleCall]
    /\ UNCHANGED <<messages, now, ret, dbOps, kbVars>>

(***************************************************************************)
(* ChatService.__init__ and ChatService.process_message                    *)
(***************************************************************************)
\* ChatService(tenant_id, db), as every route builds one for its request:
\* it builds the request's RetrievalService
ChatServiceInit(p, t, client_ok, ensure_ok) ==
    /\ call[p].pc = "idle"
    /\ RetrievalServiceInit(t, client_ok, ensure_ok)
    /\ call' = [call EXCEPT ![p] =
           [pc |-> "pm_start", tenant |-> t, rs |-> (pc \/ client_ok)]]
    /\ ret' = [ret EXCEPT ![p] = NoReturn]
    /\ dbOps' = dbOps + 1
    /\ UNCHANGED <<instances, store, kb, kbOps, conversations, messages, now, db>>

\* a process_message without its try/except: the exception leaves it
PmErrorRaises(p, c) ==
    Returns(p, [op |-> "process_message", path |-> "error", raised |-> TRUE,
                step |-> c.pc,
                tenant |-> c.tenant, session |-> c.session, channel |-> c.channel,
                message |-> c.message, result |-> [session_id |-> c.session]])

\* the except branch: the fixed error response; step is the step that raised
PmError(p, c) ==
    Returns(p, [op |-> "process_message", path |-> "error", raised |-> FALSE,
                step |-> c.pc,
                tenant |-> c.tenant, session |-> c.session, channel |-> c.channel,
                message |-> c.message, result |-> ErrorResponse(c.session)])

\* step 10: the result bundle
PmResult(p, c) ==
    Returns(p, [op |-> "process_message", path |-> "normal", raised |-> FALSE,
                tenant |-> c.tenant, session |-> c.session, channel |-> c.channel,
                message |-> c.message, conv |-> c.conv, client |-> c.client,
                search_failed |-> c.search_failed, llm_failed |-> c.llm_failed,
                llm_messages |-> c.llm_messages, asst_msg |-> c.asst_msg,
                result |-> [response |-> c.ai, escalate |-> c.esc,
                            confidence |-> c.conf, session_id |-> c.session,
                            conversation_id |-> ToString(c.conv)]])

\* step 1, the query of get_or_create_conversation
PmStart(p, msg, sid, ch, fail) ==
    /\ call[p].pc = "pm_start"
    /\ LET c == [pc |-> "pm_start", tenant |-> call[p].tenant, rs |-> call[p].rs,
                 session |-> sid, channel |-> ch, message |-> msg]
           found == ActiveConversations(conversations, TenantUuid(c.tenant), sid)
       IN  IF fail THEN PmError(p, c)
           ELSE IF found # {}
               THEN /\ \E id \in found :
                          call' = [call EXCEPT ![p] = Goes(c, "pm_user", "conv", id)]
                    /\ UNCHANGED ret
           ELSE /\ call' = [call EXCEPT ![p] = [c EXCEPT !.pc = "pm_new"]]
                /\ UNCHANGED ret
    /\ UNCHANGED <<conversations, messages, now, db, dbOps, kbVars>>

\* step 1, the insert of get_or_create_conversation: add, commit, refresh
PmInsert(p, fail) ==
    /\ call[p].pc = "pm_insert"
    /\ LET c == call[p]
       IN  IF fail = "commit"
           THEN /\ PmError(p, c)
                /\ UNCHANGED conversations
           ELSE /\ conversations' = Append(conversations,
                        NewConversation(TenantUuid(c.tenant), c.session, c.channel,
                                        c.started_at))
                /\ IF fail = "refresh"
                   THEN PmError(p, c)
                   ELSE /\ call' = [call EXCEPT ![p] =
                               [pc |-> "pm_user", tenant |-> c.tenant, rs |-> c.rs,
                                session |-> c.session, channel |-> c.channel,
                                message |-> c.message,
                                conv |-> Len(conversations) + 1]]
                        /\ UNCHANGED ret
    /\ UNCHANGED <<messages, now, db, dbOps, kbVars>>

\* step 2: save the user message: add, commit, refresh
PmSaveUser(p, fail) ==
    /\ call[p].pc = "pm_save_user"
    /\ LET c == call[p]
       IN  IF fail = "commit"
           THEN /\ PmError(p, c)
                /\ UNCHANGED messages
           ELSE /\ messages' = SaveMessageRows(messages, TenantUuid(c.tenant), c.conv,
                                               "user", c.message,
                                               [channel |-> c.channel], c.created_at)
                /\ IF fail = "refresh"
                   THEN PmError(p, c)
                   ELSE /\ call' = [call EXCEPT ![p].pc = "pm_history"]
                        /\ UNCHANGED ret
    /\ UNCHANGED <<conversations, now, db, dbOps, kbVars>>

\* step 3: load the history
PmHistory(p, fail) ==
    /\ call[p].pc = "pm_history"
    /\ IF fail
       THEN PmError(p, call[p])
       ELSE /\ call' = [call EXCEPT ![p] =
                   [pc |-> "pm_generate", tenant |-> call[p].tenant,
                    rs |-> call[p].rs,
                    session |-> call[p].session, channel |-> call[p].channel,
                    message |-> call[p].message, conv |-> call[p].conv,
                    history |-> HistoryRows(messages, TenantUuid(call[p].tenant),
                                            call[p].conv, HistoryLimit)]]
            /\ UNCHANGED ret
    /\ UNCHANGED <<conversations, messages, now, db, dbOps, kbVars>>

\* the vectors the search of request p can be scored on: a RetrievalService
\* without client returns before any provider call
PmCandidates(p) ==
    IF call[p].pc = "pm_generate" /\ call[p].rs
    THEN Candidates(store, SearchFilter(call[p].tenant))
    ELSE {}

\* steps 4 to 6: search on the request's RetrievalService, build the context,
\* generate
PmGenerate(p, searchFail, score, llm) ==
    /\ call[p].pc = "pm_generate"
    /\ (call[p].rs /\ ~index_exists) => searchFail \in {"embed", "index"}
    /\ LET c == call[p]
           sr == SearchRun(store, c.rs, c.tenant, DefaultTopK, DefaultThreshold,
                           searchFail, score)
           context == BuildContext(sr.docs)
           g == GenerateResponse(c.tenant, llm)
       IN  IF sr.raised
           THEN PmError(p, c)
           ELSE /\ call' = [call EXCEPT ![p] =
                       [pc |-> "pm_check", tenant |-> c.tenant,
                        session |-> c.session, channel |-> c.channel,
                        message |-> c.message, conv |-> c.conv,
                        client |-> c.rs, documents_used |-> Len(sr.docs),
                        search_failed |-> (~c.rs \/ searchFail # "none"),
                        llm_failed |-> ~llm.ok,
                        llm_messages |-> LlmMessages(c.tenant, c.message, c.history,
                                                     context),
                        ai |-> g.text, conf |-> g.confidence]]
                /\ UNCHANGED ret
    /\ UNCHANGED <<conversations, messages, now, db, dbOps, kbVars>>

\* step 7: check for escalation.  When no keyword occurs the check reads
\* conversation.messages, which loads the conversation's rows as they are
\* then; fail is that load raising.
PmCheck(p, fail) ==
    /\ call[p].pc = "pm_check"
    /\ LET c == call[p]
           keyword == CheckEscalation(c.tenant, c.message, c.ai, 0)
           should_escalate ==
               CheckEscalation(c.tenant, c.message, c.ai, MessageCount(messages, c.conv))
       IN  IF ~keyword /\ fail
           THEN PmError(p, c)
           ELSE /\ call' = [call EXCEPT ![p] = Goes(c, "pm_asst", "esc", should_escalate)]
                /\ UNCHANGED ret
    /\ UNCHANGED <<conversations, messages, now, db, dbOps, kbVars>>

\* step 8: save the assistant message: add, commit, refresh.  The commit
\* expires the conversation: a turn that does not escalate reloads it for
\* its result.
PmSaveAsst(p, fail) ==
    /\ call[p].pc = "pm_save_asst"
    /\ LET c == call[p]
           done == [pc |-> IF c.esc THEN "pm_update" ELSE "pm_return",
                    tenant |-> c.tenant, session |-> c.session, channel |-> c.channel,
                    message |-> c.message, conv |-> c.conv, client |-> c.client,
                    search_failed |-> c.search_failed, llm_failed |-> c.llm_failed,
                    llm_messages |-> c.llm_messages, ai |-> c.ai, conf |-> c.conf,
                    esc |-> c.esc, asst_msg |-> Len(messages) + 1]
       IN  IF fail = "commit"
           THEN /\ PmError(p, c)
                /\ UNCHANGED messages
           ELSE /\ messages' = SaveMessageRows(messages, TenantUuid(c.tenant), c.conv,
                        "assistant", c.ai,
                        [confidence |-> c.conf, escalation_triggered |-> c.esc,
                         documents_used |-> c.documents_used],
                        c.created_at)
                /\ IF fail = "refresh"
                   THEN PmError(p, c)
                   ELSE /\ call' = [call EXCEPT ![p] = done]
                        /\ UNCHANGED ret
    /\ UNCHANGED <<conversations, now, db, dbOps, kbVars>>

\* a step 9 that passes the status and not the escalated flag
PmUpdateStatusOnly(p, fail) ==
    /\ call[p].pc = "pm_update"
    /\ LET c == call[p]
       IN  IF fail \/ ~ConversationFound(conversations, TenantUuid(c.tenant), c.conv)
           THEN PmError(p, c)
           ELSE /\ call' = [call EXCEPT ![p] =
                       [c EXCEPT !.pc = "pm_assign"]
                       @@ [loaded |-> conversations[c.conv],
                           status |-> {"escalated"}, escalated |-> {}]]
                /\ UNCHANGED ret
    /\ UNCHANGED <<conversations, messages, now, db, dbOps, kbVars>>

\* step 9: update_conversation_status(ESCALATED, escalated=True), its query
\* (the expired conversation is reloaded for its id first)
PmUpdate(p, fail) ==
    /\ call[p].pc = "pm_update"
    /\ LET c == call[p]
       IN  IF fail \/ ~ConversationFound(conversations, TenantUuid(c.tenant), c.conv)
           THEN PmError(p, c)
           ELSE /\ call' = [call EXCEPT ![p] =
                       [c EXCEPT !.pc = "pm_assign"]
                       @@ [loaded |-> conversations[c.conv],
                           status |-> {"escalated"}, escalated |-> {TRUE}]]
                /\ UNCHANGED ret
    /\ UNCHANGED <<conversations, messages, now, db, dbOps, kbVars>>

\* step 9, the commit and the refresh of update_conversation_status, then
\* step 10
PmUpdateCommit(p, fail) ==
    /\ call[p].pc = "pm_update_commit"
    /\ LET c == call[p]
       IN  IF fail = "commit"
           THEN /\ PmError(p, c)
                /\ UNCHANGED conversations
           ELSE /\ conversations' = [conversations EXCEPT ![c.conv] =
                        Flushed(@, c.loaded, c.new)]
                /\ IF fail = "refresh" THEN PmError(p, c) ELSE PmResult(p, c)
    /\ UNCHANGED <<messages, now, db, dbOps, kbVars>>

\* step 10 of a turn that did not escalate: str(conversation.id) reloads the
\* conversation, which the commit of step 8 has expired
PmReturn(p, fail) ==
    /\ call[p].pc = "pm_return"
    /\ IF fail THEN PmError(p, call[p]) ELSE PmResult(p, call[p])
    /\ UNCHANGED <<conversations, messages, now, db, dbOps, kbVars>>

(***************************************************************************)
(* routes.sms_webhook, routes.voice_knowledge_webhook and                  *)
(* routes.voice_transcript_webhook.  The rows they add take started_at and *)
(* created_at from the column defaults, which read the clock when commit() *)
(* sends the INSERT, before it sends the COMMIT.                            *)
(***************************************************************************)
SmsErrorText ==
    "Sorry, we're experiencing technical difficulties. Please try again later."

\* what the request answers: text is the message put into the TwiML
SwReturn(c, text) ==
    [op |-> "sms_webhook", tenant |-> c.tenant, from |-> c.from, body |-> c.body,
     text |-> text]

\* the flush of commit(): every INSERT takes the column default
\* datetime.utcnow as it reads then; the k-th row of a transcript is stamped
\* step after the row before it
FlushDefaults(p, dt, step) ==
    /\ call[p].pc \in {"sw_new", "sw_user", "vt_new", "vt_rows"}
    /\ LET c == call[p]
           rows == IF c.pc = "vt_rows" THEN Len(c.transcript) ELSE 1
       IN  /\ now' = IF rows = 0 THEN now ELSE Clock(dt) + (rows - 1) * step
           /\ call' = [call EXCEPT ![p] =
                  Goes(c, IF c.pc = "sw_new" THEN "sw_insert"
                          ELSE IF c.pc = "sw_user" THEN "sw_save_user"
                          ELSE IF c.pc = "vt_new" THEN "vt_insert"
                          ELSE "vt_save",
                       "stamp", [first |-> Clock(dt),
                                 step |-> IF c.pc = "vt_rows" THEN step ELSE 0])]
    /\ UNCHANGED <<conversations, messages, ret, db, dbOps, kbVars>>

\* the tenant and the conversation are looked up: by session id = From and
\* channel "sms", ended or not, with no ORDER BY
SmsWebhook(p, t, from, to, body, sid, fail) ==
    /\ call[p].pc = "idle"
    /\ LET c == [pc |-> "sw_new", tenant |-> t, from |-> from, to |-> to,
                 body |-> body, message_sid |-> sid]
           found == ChannelConversations(conversations, TenantUuid(t), from, "sms")
       IN  IF fail THEN Returns(p, SwReturn(c, SmsErrorText))
           ELSE IF t \notin Tenants THEN Returns(p, SwReturn(c, "Service unavailable"))
           ELSE IF found # {}
               THEN /\ \E id \in found :
                          call' = [call EXCEPT ![p] = Goes(c, "sw_user", "conv", id)]
                    /\ ret' = [ret EXCEPT ![p] = NoReturn]
           ELSE /\ call' = [call EXCEPT ![p] = c]
                /\ ret' = [ret EXCEPT ![p] = NoReturn]
    /\ dbOps' = dbOps + 1
    /\ UNCHANGED <<conversations, messages, now, db, kbVars>>

\* no row was found: the conversation is added and committed; conversation.id
\* then reloads it
SmsWebhookInsert(p, fail) ==
    /\ call[p].pc = "sw_insert"
    /\ LET c == call[p]
       IN  IF fail = "commit"
           THEN /\ Returns(p, SwReturn(c, SmsErrorText))
                /\ UNCHANGED conversations
           ELSE /\ conversations' = Append(conversations,
                        NewConversation(TenantUuid(c.tenant), c.from, "sms",
                                        c.stamp.first))
                /\ IF fail = "refresh"
                   THEN Returns(p, SwReturn(c, SmsErrorText))
                   ELSE /\ call' = [call EXCEPT ![p] =
                               Goes(c, "sw_user", "conv", Len(conversations) + 1)]
                        /\ UNCHANGED ret
    /\ UNCHANGED <<messages, now, db, dbOps, kbVars>>

\* the user message is added and committed; ChatService(tenant_id, db),
\* built next, starts with a query for the tenant
SmsWebhookSaveUser(p, fail) ==
    /\ call[p].pc = "sw_save_user"
    /\ LET c == call[p]
       IN  IF fail = "commit"
           THEN /\ Returns(p, SwReturn(c, SmsErrorText))
                /\ UNCHANGED messages
           ELSE /\ messages' = SaveMessageRows(messages, TenantUuid(c.tenant), c.conv,
                        "user", c.body,
                        [channel |-> "sms", message_sid |-> c.message_sid,
                         from |-> c.from, to |-> c.to],
                        c.stamp.first)
                /\ IF fail = "refresh"
                   THEN Returns(p, SwReturn(c, SmsErrorText))
                   ELSE /\ call' = [call EXCEPT ![p].pc = "sw_respond"]
                        /\ UNCHANGED ret
    /\ UNCHANGED <<conversations, now, db, dbOps, kbVars>>

\* ChatService(tenant_id, db) is built; chat_service.generate_response is no
\* attribute of it, so the call raises: rollback, the error text
SmsWebhookRespond(p, client_ok, ensure_ok) ==
    /\ call[p].pc = "sw_respond"
    /\ RetrievalServiceInit(call[p].tenant, client_ok, ensure_ok)
    /\ Returns(p, SwReturn(call[p], SmsErrorText))
    /\ UNCHANGED <<instances, store, kb, kbOps, conversations, messages, now, db, dbOps>>

\* routes.voice_knowledge_webhook: the tenant is looked up and
\* ChatService(tenant_id, db) is built, which queries the tenant again and
\* builds a RetrievalService; chat_service.generate_response is no attribute
\* of it, so the call raises: the apology.  fail: "tenant", the query of the
\* route raises; "service", the query of ChatService.__init__ raises.
VoiceKnowledge(p, t, query, caller, fail, client_ok, ensure_ok) ==
    /\ call[p].pc = "idle"
    /\ IF fail = "none" /\ t \in Tenants
       THEN RetrievalServiceInit(t, client_ok, ensure_ok)
       ELSE UNCHANGED <<pc, index_exists>>
    /\ Returns(p, [op |-> "voice_knowledge_webhook", tenant |-> t, query |-> query,
                   caller_phone |-> caller,
                   response |->
                       IF fail # "tenant" /\ t \notin Tenants
                       THEN "Service unavailable"
                       ELSE "I apologize, but I'm having trouble accessing that information right now. Please try again or speak with our team directly."])
    /\ dbOps' = dbOps + 1
    /\ UNCHANGED <<instances, store, kb, kbOps, conversations, messages, now, db>>

\* what the request answers
VtReturn(c, success, id, saved) ==
    [op |-> "voice_transcript_webhook", tenant |-> c.tenant,
     caller_phone |-> c.caller_phone, success |-> success,
     conversation_id |-> id, messages_saved |-> saved]

\* the rows of the transcript, added in its order
RECURSIVE TranscriptRows(_, _, _, _, _, _)
TranscriptRows(msgs, c, transcript, k, t, step) ==
    IF k > Len(transcript) THEN msgs
    ELSE TranscriptRows(
             SaveMessageRows(msgs, TenantUuid(c.tenant), c.conv,
                 IF transcript[k].role = "user" THEN "user" ELSE "assistant",
                 transcript[k].content,
                 [channel |-> "voice", timestamp |-> transcript[k].timestamp,
                  conversation_id |-> c.conversation_id,
                  caller_phone |-> c.caller_phone],
                 t),
             c, transcript, k + 1, t + step, step)

\* the tenant and the conversation are looked up: by session id =
\* caller_phone and channel "voice", ended or not, with no ORDER BY
VoiceTranscript(p, t, ext_id, caller, transcript, duration, fail) ==
    /\ call[p].pc = "idle"
    /\ LET c == [pc |-> "vt_new", tenant |-> t, conversation_id |-> ext_id,
                 caller_phone |-> caller, transcript |-> transcript,
                 duration_seconds |-> duration]
           found == ChannelConversations(conversations, TenantUuid(t), caller, "voice")
       IN  IF fail \/ t \notin Tenants THEN Returns(p, VtReturn(c, FALSE, "", 0))
           ELSE IF found # {}
               THEN /\ \E id \in found :
                          call' = [call EXCEPT ![p] =
                              Goes(c @@ [loaded |-> <<conversations[id]>>],
                                   "vt_rows", "conv", id)]
                    /\ ret' = [ret EXCEPT ![p] = NoReturn]
           ELSE /\ call' = [call EXCEPT ![p] = c]
                /\ ret' = [ret EXCEPT ![p] = NoReturn]
    /\ dbOps' = dbOps + 1
    /\ UNCHANGED <<conversations, messages, now, db, kbVars>>

\* no row was found: the conversation is added and committed, which expires
\* it.  loaded is the row the session holds, if it holds one: none now.
\* The first message of a transcript reads conversation.id, which reloads
\* the row in a step of its own; an empty transcript leaves it expired.
VoiceTranscriptInsert(p, fail) ==
    /\ call[p].pc = "vt_insert"
    /\ LET c == call[p]
       IN  IF fail
           THEN /\ Returns(p, VtReturn(c, FALSE, "", 0))
                /\ UNCHANGED conversations
           ELSE /\ conversations' = Append(conversations,
                        NewConversation(TenantUuid(c.tenant), c.caller_phone, "voice",
                                        c.stamp.first))
                /\ call' = [call EXCEPT ![p] =
                       Goes(c @@ [loaded |-> <<>>],
                            IF c.transcript # <<>> THEN "vt_reload" ELSE "vt_rows",
                            "conv", Len(conversations) + 1)]
                /\ UNCHANGED ret
    /\ UNCHANGED <<messages, now, db, dbOps, kbVars>>

\* conversation.id of the expired row, read for the first message of the
\* transcript: a SELECT that loads the row as it is in the table by then,
\* or raises
VoiceTranscriptReload(p, fail) ==
    /\ call[p].pc = "vt_reload"
    /\ LET c == call[p]
       IN  IF fail
           THEN Returns(p, VtReturn(c, FALSE, "", 0))
           ELSE /\ call' = [call EXCEPT ![p] =
                       Goes(c, "vt_rows", "loaded", <<conversations[c.conv]>>)]
                /\ UNCHANGED ret
    /\ UNCHANGED <<conversations, messages, now, db, dbOps, kbVars>>

\* the messages of the transcript are added, the conversation's metadata is
\* assigned, one commit; str(conversation.id) then reloads the conversation.
\* The UPDATE of the commit sets extra_data when the assigned value differs
\* from the one the session holds, and always when the row is expired.
VoiceTranscriptSave(p, fail) ==
    /\ call[p].pc = "vt_save"
    /\ LET c == call[p]
           md == [elevenlabs_conversation_id |-> c.conversation_id,
                  duration_seconds |-> c.duration_seconds,
                  caller_phone |-> c.caller_phone]
       IN  IF fail = "commit"
           THEN /\ Returns(p, VtReturn(c, FALSE, "", 0))
                /\ UNCHANGED <<conversations, messages>>
           ELSE /\ messages' = TranscriptRows(messages, c, c.transcript, 1,
                                              c.stamp.first, c.stamp.step)
                /\ conversations' = [conversations EXCEPT ![c.conv] =
                        IF c.loaded = <<>>
                        THEN [@ EXCEPT !.extra_data = md]
                        ELSE Flushed(@, c.loaded[1],
                                     [c.loaded[1] EXCEPT !.extra_data = md])]
                /\ IF fail = "refresh"
                   THEN Returns(p, VtReturn(c, FALSE, "", 0))
                   ELSE Returns(p, VtReturn(c, TRUE, ToString(c.conv), Len(c.transcript)))
    /\ UNCHANGED <<now, db, dbOps, kbVars>>

(***************************************************************************)
(* The knowledge-base specification.                                       *)
(***************************************************************************)
EmptyStore == [i \in {} |-> 0]

\* the store after acme indexed its refund policy
SeedStore == Upsert(EmptyStore, BuildVectors("acme", "d1", Title,
                                             ChunksOf[TextOne].chunks, EmptyMeta))

DbInit ==
    /\ conversations = <<>>
    /\ messages = <<>>
    /\ now = 1
    /\ call = [p \in Procs |-> IdleCall]
    /\ ret = [p \in Procs |-> NoReturn]
    /\ db = NoReturn
    /\ dbOps = 0

\* the process has started: the class has no client and no object is built;
\* the index may be there from an earlier run, empty or with acme's refund
\* policy in it
KbInit ==
    /\ pc = FALSE
    /\ instances = {}
    /\ index_exists \in BOOLEAN
    /\ store \in {EmptyStore, SeedStore}
    /\ store # EmptyStore => index_exists
    /\ kb = [op |-> "none", raised |-> FALSE]
    /\ kbOps = 0
    /\ DbInit

\* A provider call that is not made has no outcome: the constructor calls
\* Pinecone() only while the class has no client and _ensure_index_exists only
\* with a client, and an object without client makes no provider call.
KbNext ==
    \/ \E t \in Tenants, client_ok \in (IF pc THEN {TRUE} ELSE BOOLEAN) :
          \E ensure_ok \in (IF pc \/ client_ok THEN BOOLEAN ELSE {FALSE}) :
              NewRetrievalService(t, client_ok, ensure_ok)
    \/ \E self \in instances, d \in DocIds, c \in Contents, md \in Metas :
          \E f \in {g \in IndexFailures : g <= Len(ChunksOf[c].chunks)} :
              (self.pc \/ f = 0) /\ IndexDocument(self, d, c, md, f)
    \/ \E self \in instances, d \in DocIds, f \in BOOLEAN :
          (self.pc \/ ~f) /\ DeleteDocument(self, d, f)
    \/ \E self \in instances, q \in Queries, k \in TopKs, th \in {DefaultThreshold, HighThreshold} :
          \E score \in [(IF self.pc THEN Candidates(store, SearchFilter(self.tenant_id))
                                     ELSE {}) -> Scores] :
              Search(self, q, k, th, "none", score)
    \/ \E self \in {i \in instances : i.pc}, q \in Queries,
          f \in SearchFailures \ {"none"} :
          Search(self, q, DefaultTopK, DefaultThreshold, f, <<>>)

SpecKb == KbInit /\ [][KbNext]_vars

(***************************************************************************)
(* Inputs of the database calls and of process_message.                    *)
(***************************************************************************)
UserMessages == {"What are your hours?", "I want a REFUND"}

\* what a commit step can do: see Requests
CommitFailures == {"none", "commit", "refresh"}
OptStatus == {{}} \cup {{st} : st \in Statuses}

\* calls started in one behaviour of each specification
MaxStoreOps == 4
MaxChatOps == 2
MaxRaceOps == 2
MaxAllOps == 2

(***************************************************************************)
(* The conversation-store specification: DatabaseService called directly,  *)
(* one call at a time.                                                     *)
(***************************************************************************)
\* the process has started; the index is there and empty
StoreInit ==
    /\ pc = FALSE
    /\ instances = {}
    /\ index_exists = TRUE
    /\ store = EmptyStore
    /\ kb = [op |-> "none", raised |-> FALSE]
    /\ kbOps = 0
    /\ DbInit

StoreNext ==
    \/ \E t \in Tenants, sid \in Sessions, ch \in Channels :
          dbOps < MaxStoreOps /\ GocStart(1, t, sid, ch, FALSE)
    \/ GocNew(1, 1)
    \/ \E f \in CommitFailures : GocInsert(1, f)
    \/ \E t \in Tenants, cid \in 1..(Len(conversations) + 1) :
          /\ dbOps < MaxStoreOps
          /\ SaveMessage(1, t, cid, "user", "note", EmptyMeta, FALSE)
    \/ \E dt \in {0, 1} : SaveMessageNew(1, dt)
    \/ \E f \in CommitFailures : SaveMessageCommit(1, f)
    \/ \E t \in Tenants, cid \in 1..(Len(conversations) + 1), limit \in {1, HistoryLimit} :
          /\ dbOps < MaxStoreOps
          /\ call[1].pc = "idle"
          /\ GetConversationHistory(t, cid, limit)
    \/ \E t \in Tenants, cid \in 1..(Len(conversations) + 1),
          st \in OptStatus \ {{"resolved"}}, e \in {{}, {TRUE}} :
          /\ dbOps < MaxStoreOps
          /\ UpdateConversationStatus(1, t, cid, st, e, FALSE)
    \/ UpdateConversationAssign(1, 1)
    \/ UpdateConversationCommit(1, "none")

SpecStore == StoreInit /\ [][StoreNext]_vars

(***************************************************************************)
(* The chat specification: process_message, one request at a time.         *)
(***************************************************************************)
\* the process has started; the index holds acme's refund policy
Init ==
    /\ pc = FALSE
    /\ instances = {}
    /\ index_exists = TRUE
    /\ store = SeedStore
    /\ kb = [op |-> "none", raised |-> FALSE]
    /\ kbOps = 0
    /\ DbInit

Next ==
    \/ \E t \in Tenants, client_ok \in (IF pc THEN {TRUE} ELSE BOOLEAN) :
          dbOps < MaxChatOps /\ ChatServiceInit(1, t, client_ok, TRUE)
    \/ \E m \in UserMessages, sid \in Sessions, f \in BOOLEAN :
          PmStart(1, m, sid, "chat", f)
    \/ GocNew(1, 1)
    \/ \E f \in CommitFailures : PmInsert(1, f)
    \/ SaveMessageNew(1, 1)
    \/ \E f \in CommitFailures : PmSaveUser(1, f)
    \/ \E f \in BOOLEAN : PmHistory(1, f)
    \/ \E sf \in SearchFailures, llm \in LlmOutcomes :
          \E score \in [PmCandidates(1) -> Scores] :
              /\ call[1].pc = "pm_generate"
              /\ call[1].rs \/ sf = "none"
              /\ PmGenerate(1, sf, score, llm)
    \/ \E f \in BOOLEAN : PmCheck(1, f)
    \/ \E f \in CommitFailures : PmSaveAsst(1, f)
    \/ \E f \in BOOLEAN : PmUpdate(1, f)
    \/ UpdateConversationAssign(1, 1)
    \/ \E f \in CommitFailures : PmUpdateCommit(1, f)
    \/ \E f \in BOOLEAN : PmReturn(1, f)

Spec == Init /\ [][Next]_vars

(***************************************************************************)
(* Every conversation operation, one call at a time: the direct            *)
(* DatabaseService calls and process_message.                              *)
(***************************************************************************)
AllNext ==
    \/ (call[1].pc # "idle" \/ dbOps < MaxAllOps) /\ StoreNext
    \/ dbOps < MaxAllOps /\ ChatServiceInit(1, "acme", TRUE, TRUE)
    \/ \E m \in UserMessages : PmStart(1, m, "s1", "chat", FALSE)
    \/ PmInsert(1, "none")
    \/ PmSaveUser(1, "none")
    \/ PmHistory(1, FALSE)
    \/ \E llm \in LlmOutcomes :
          \E score \in [PmCandidates(1) -> Scores] :
              PmGenerate(1, "none", score, llm)
    \/ PmCheck(1, FALSE)
    \/ PmSaveAsst(1, "none")
    \/ PmUpdate(1, FALSE)
    \/ PmUpdateCommit(1, "none")
    \/ PmReturn(1, FALSE)

SpecAll == StoreInit /\ [][AllNext]_vars

(***************************************************************************)
(* The race specification: two requests at once on one session.            *)
(***************************************************************************)
RaceNext ==
    \/ \E p \in Procs : dbOps < MaxRaceOps /\ GocStart(p, "acme", "s1", "chat", FALSE)
    \/ \E p \in Procs : GocNew(p, 1)
    \/ \E p \in Procs : GocInsert(p, "none")
    \/ \E p \in Procs : dbOps < MaxRaceOps /\ ChatServiceInit(p, "acme", TRUE, TRUE)
    \/ \E p \in Procs, m \in UserMessages : PmStart(p, m, "s1", "chat", FALSE)
    \/ \E p \in Procs : PmInsert(p, "none")
    \/ \E p \in Procs : SaveMessageNew(p, 1)
    \/ \E p \in Procs, f \in {"none", "commit"} : PmSaveUser(p, f)
    \/ \E p \in Procs : PmHistory(p, FALSE)
    \/ \E p \in Procs, llm \in LlmOutcomes :
          \E score \in [PmCandidates(p) -> Scores] :
              PmGenerate(p, "none", score, llm)
    \/ \E p \in Procs : PmCheck(p, FALSE)
    \/ \E p \in Procs, f \in {"none", "commit"} : PmSaveAsst(p, f)
    \/ \E p \in Procs : PmUpdate(p, FALSE)
    \/ \E p \in Procs : UpdateConversationAssign(p, 1)
    \/ \E p \in Procs : PmUpdateCommit(p, "none")
    \/ \E p \in Procs : PmReturn(p, FALSE)

SpecRace == StoreInit /\ [][RaceNext]_vars

(***************************************************************************)
(* The webhook specification, one request at a time:                       *)
(* webhooks.twilio_sms_webhook builds a ChatService and hands the form's   *)
(* Body, '' when the form has none, to process_message, with "sms_" and    *)
(* the sender's number as session id; routes.sms_webhook and               *)
(* routes.voice_transcript_webhook write the tables themselves;            *)
(* routes.voice_knowledge_webhook builds a ChatService and writes nothing. *)
(***************************************************************************)
SmsBodies == {"", "I want a REFUND", "What are your hours?"}

\* webhook calls in one behaviour
MaxSmsOps == 2

SmsNext ==
    \/ \E t \in Tenants, client_ok \in BOOLEAN :
          dbOps < MaxSmsOps /\ ChatServiceInit(1, t, client_ok, TRUE)
    \/ \E body \in SmsBodies : PmStart(1, body, "sms_+15550100", "sms", FALSE)
    \/ GocNew(1, 1)
    \/ PmInsert(1, "none")
    \/ SaveMessageNew(1, 1)
    \/ PmSaveUser(1, "none")
    \/ PmHistory(1, FALSE)
    \/ \E llm \in LlmOutcomes :
          \E score \in [PmCandidates(1) -> Scores] :
              PmGenerate(1, "none", score, llm)
    \/ PmCheck(1, FALSE)
    \/ PmSaveAsst(1, "none")
    \/ PmUpdate(1, FALSE)
    \/ UpdateConversationAssign(1, 1)
    \/ PmUpdateCommit(1, "none")
    \/ PmReturn(1, FALSE)
    \/ \E t \in Tenants \cup {"nobody"}, body \in SmsBodies \ {""} :
          /\ dbOps < MaxSmsOps
          /\ SmsWebhook(1, t, "+15550100", "+15550199", body, "SM1", FALSE)
    \/ \E step \in {0, 1} : FlushDefaults(1, 1, step)
    \/ \E f \in CommitFailures : SmsWebhookInsert(1, f)
    \/ \E f \in CommitFailures : SmsWebhookSaveUser(1, f)
    \/ \E client_ok \in BOOLEAN : SmsWebhookRespond(1, client_ok, TRUE)
    \/ \E t \in Tenants \cup {"nobody"},
          transcript \in
              {<<>>,
               <<[role |-> "user", content |-> "What are your hours?",
                  timestamp |-> "0:01"],
                 [role |-> "agent", content |-> "We are open 9 to 5.",
                  timestamp |-> "0:04"]>>} :
          /\ dbOps < MaxSmsOps
          /\ VoiceTranscript(1, t, "el-1", "+15550100", transcript, 42, FALSE)
    \/ \E f \in BOOLEAN : VoiceTranscriptInsert(1, f)
    \/ \E f \in BOOLEAN : VoiceTranscriptReload(1, f)
    \/ \E f \in CommitFailures : VoiceTranscriptSave(1, f)
    \/ \E t \in Tenants \cup {"nobody"}, f \in {"none", "tenant", "service"},
          client_ok \in BOOLEAN :
          /\ dbOps < MaxSmsOps
          /\ VoiceKnowledge(1, t, "What are your hours?", "+15550100", f,
                            client_ok, TRUE)

SpecSms == Init /\ [][SmsNext]_vars

(***************************************************************************)
(* The chunking specification: _chunk_text on its own, on short texts with *)
(* small windows and on one long text with the default window.             *)
(***************************************************************************)
ChunkTexts ==
    {"Ok. We are open on Monday",
     "abcdefghijklmnopqrstuvwxyz",
     "One. Two? Three! Four five six seven.",
     "  Hello   big world.\nBye now, see you soon. "}
ChunkSizes == {10, 12, 16, 20, 24}
Overlaps == {0, 1, 2, 3, 4}

\* 198 characters, a sentence end, then 1000 characters without one
LongText == Rep("word ", 39) \o "end. " \o Rep("word ", 200)

\* <<text, chunk_size, overlap>>
ChunkInputs ==
    (ChunkTexts \X ChunkSizes \X Overlaps)
        \cup {<<LongText, DefaultChunkSize, DefaultOverlap>>}

ChunkTable == [inp \in ChunkInputs |-> ChunkRun(inp[1], inp[2], inp[3])]

\* _chunk_text calls in one behaviour
MaxChunkOps == 2

\* a call of _chunk_text that returns
ChunkText(inp) ==
    /\ kbOps < MaxChunkOps
    /\ ChunkTable[inp].done
    /\ kb' = [op |-> "chunk", raised |-> FALSE, text |-> inp[1],
              chunk_size |-> inp[2], overlap |-> inp[3],
              chunks |-> ChunkTable[inp].chunks]
    /\ kbOps' = kbOps + 1
    /\ UNCHANGED <<clientVars, store, dbVars>>

ChunkNext == \E inp \in ChunkInputs : ChunkText(inp)

SpecChunk == StoreInit /\ [][ChunkNext]_vars

(***************************************************************************)
(* The long-conversation specification: process_message turn after turn on *)
(* one session, so that a conversation outgrows the history limit.  The    *)
(* model may answer with the words of the question.                        *)
(***************************************************************************)
LongOutcomes ==
    {[ok |-> TRUE, text |-> "We are open 9 to 5.", finish_reason |-> "stop"],
     [ok |-> TRUE, text |-> "What are your hours?", finish_reason |-> "stop"]}

\* turns in one behaviour
MaxLongOps == 6

LongNext ==
    \/ dbOps < MaxLongOps /\ ChatServiceInit(1, "acme", TRUE, TRUE)
    \/ \E m \in UserMessages : PmStart(1, m, "s1", "chat", FALSE)
    \/ GocNew(1, 1)
    \/ PmInsert(1, "none")
    \/ SaveMessageNew(1, 1)
    \/ PmSaveUser(1, "none")
    \/ PmHistory(1, FALSE)
    \/ \E llm \in LongOutcomes :
          \E score \in [PmCandidates(1) -> Scores] :
              PmGenerate(1, "none", score, llm)
    \/ PmCheck(1, FALSE)
    \/ PmSaveAsst(1, "none")
    \/ PmUpdate(1, FALSE)
    \/ UpdateConversationAssign(1, 1)
    \/ PmUpdateCommit(1, "none")
    \/ PmReturn(1, FALSE)

SpecLong == StoreInit /\ [][LongNext]_vars

(***************************************************************************)
(* The two-turn specification: two process_message requests at once on one *)
(* session, whose message saves may fail.                                  *)
(***************************************************************************)
\* turns in one behaviour
MaxDuoOps == 2

DuoNext ==
    \/ \E p \in Procs : dbOps < MaxDuoOps /\ ChatServiceInit(p, "acme", TRUE, TRUE)
    \/ \E p \in Procs, m \in UserMessages : PmStart(p, m, "s1", "chat", FALSE)
    \/ \E p \in Procs : GocNew(p, 1)
    \/ \E p \in Procs : PmInsert(p, "none")
    \/ \E p \in Procs : SaveMessageNew(p, 1)
    \/ \E p \in Procs, f \in CommitFailures : PmSaveUser(p, f)
    \/ \E p \in Procs : PmHistory(p, FALSE)
    \/ \E p \in Procs :
          \E score \in [PmCandidates(p) -> Scores] :
              PmGenerate(p, "none", score,
                         [ok |-> TRUE, text |-> "We are open 9 to 5.",
                          finish_reason |-> "stop"])
    \/ \E p \in Procs : PmCheck(p, FALSE)
    \/ \E p \in Procs, f \in CommitFailures : PmSaveAsst(p, f)
    \/ \E p \in Procs, f \in BOOLEAN : PmUpdate(p, f)
    \/ \E p \in Procs : UpdateConversationAssign(p, 1)
    \/ \E p \in Procs : PmUpdateCommit(p, "none")
    \/ \E p \in Procs, f \in BOOLEAN : PmReturn(p, f)

SpecDuo == StoreInit /\ [][DuoNext]_vars

(***************************************************************************)
(* The status-update specification: two callers of                         *)
(* update_conversation_status at once on one conversation.                 *)
(***************************************************************************)
\* calls in one behaviour
MaxUpdateOps == 3

UpdateNext ==
    \/ dbOps < MaxUpdateOps /\ GocStart(1, "acme", "s1", "chat", FALSE)
    \/ GocNew(1, 1)
    \/ GocInsert(1, "none")
    \/ \E p \in Procs, cid \in 1..Len(conversations), st \in OptStatus,
          e \in {{}, {TRUE}} :
          /\ dbOps < MaxUpdateOps
          /\ UpdateConversationStatus(p, "acme", cid, st, e, FALSE)
    \/ \E p \in Procs, dt \in {0, 1} : UpdateConversationAssign(p, dt)
    \/ \E p \in Procs, f \in CommitFailures : UpdateConversationCommit(p, f)

SpecUpdate == StoreInit /\ [][UpdateNext]_vars

(***************************************************************************)
(* The chunking-loop specification: _chunk_text one loop iteration at a    *)
(* time.  kb holds the locals of the running call (text, start, chunks);   *)
(* a call that has made MaxChunkIter iterations is followed no further.    *)
(***************************************************************************)
\* the call starts: normalise, return a short text whole, else enter the loop
ChunkEnter(inp) ==
    /\ kbOps < MaxChunkOps
    /\ kb.op # "chunk_loop"
    /\ LET text == Strip(CollapseSpaces(inp[1]))
       IN  kb' = IF Len(text) <= inp[2]
                 THEN [op |-> "chunk", raised |-> FALSE, text |-> inp[1],
                       chunk_size |-> inp[2], overlap |-> inp[3],
                       chunks |-> <<text>>]
                 ELSE [op |-> "chunk_loop", raised |-> FALSE, text |-> inp[1],
                       chunk_size |-> inp[2], overlap |-> inp[3],
                       normalized |-> text, start |-> 0, chunks |-> <<>>]
    /\ kbOps' = kbOps + 1
    /\ UNCHANGED <<clientVars, store, dbVars>>

\* while start < len(text): one iteration
ChunkIteration ==
    /\ kb.op = "chunk_loop"
    /\ kb.start < Len(kb.normalized)
    /\ Len(kb.chunks) < MaxChunkIter
    /\ LET b == LoopBody(kb.normalized, kb.chunk_size, kb.overlap, kb.start)
       IN  kb' = [kb EXCEPT !.start = b.start, !.chunks = Append(@, b.chunk)]
    /\ UNCHANGED <<clientVars, store, kbOps, dbVars>>

\* the loop condition fails: return chunks
ChunkReturn ==
    /\ kb.op = "chunk_loop"
    /\ ~(kb.start < Len(kb.normalized))
    /\ kb' = [op |-> "chunk", raised |-> FALSE, text |-> kb.text,
              chunk_size |-> kb.chunk_size, overlap |-> kb.overlap,
              chunks |-> kb.chunks]
    /\ UNCHANGED <<clientVars, store, kbOps, dbVars>>

ChunkLoopNext ==
    \/ \E inp \in ChunkTexts \X ChunkSizes \X Overlaps : ChunkEnter(inp)
    \/ ChunkIteration
    \/ ChunkReturn

SpecChunkLoop == StoreInit /\ [][ChunkLoopNext]_vars

(***************************************************************************)
(* Properties.                                                             *)
(***************************************************************************)
\* the vectors of the store whose metadata names document d
VectorsOfDocument(st, d) ==
    {st[i] : i \in {j \in DOMAIN st : st[j].metadata["document_id"] = d}}

\* the conversations that are active for the triple of conversation i
ActiveTwins(i) ==
    {j \in 1..Len(conversations) :
        /\ conversations[j].tenant_id = conversations[i].tenant_id
        /\ conversations[j].session_id = conversations[i].session_id
        /\ conversations[j].channel = conversations[i].channel
        /\ conversations[j].ended_at = NoTime}

IsGocReturn(p) == ret[p].op = "get_or_create_conversation" /\ ~ret[p].raised

\* C1: two get_or_create_conversation calls for one (tenant, session id,
\* channel) that both start while the triple has no active conversation
\* return the same conversation id, and the triple never has more than one
\* conversation whose ended_at is unset.
C1_SingleActiveConversation ==
    /\ \A i \in 1..Len(conversations) :
          conversations[i].ended_at = NoTime => ActiveTwins(i) = {i}
    /\ ( /\ IsGocReturn(1) /\ IsGocReturn(2)
         /\ ret[1].tenant = ret[2].tenant
         /\ ret[1].session = ret[2].session
         /\ ret[1].channel = ret[2].channel
         /\ \A i \in 1..Len(conversations) : conversations[i].ended_at = NoTime )
       => ret[1].conversation_id = ret[2].conversation_id

\* C2: every vector index_document submits for tenant T carries metadata
\* tenant_id = T, whatever metadata the caller supplied.
C2_SubmittedTenantId ==
    kb.op = "index" =>
        \A u \in 1..Len(kb.upserts) : \A k \in 1..Len(kb.upserts[u]) :
            kb.upserts[u][k].metadata["tenant_id"] = kb.tenant

\* C3: search for tenant A returns only matches whose metadata tenant id is A,
\* and every vector-store query it issues carries the filter tenant_id = A.
C3_SearchIsolation ==
    kb.op = "search" =>
        /\ \A k \in 1..Len(kb.result) : kb.result[k].metadata["tenant_id"] = kb.tenant
        /\ \A k \in 1..Len(kb.filters) :
              /\ "tenant_id" \in DOMAIN kb.filters[k]
              /\ kb.filters[k]["tenant_id"] = kb.tenant

\* a search of one tenant returned matches while the store also holds vectors
\* whose metadata names another tenant
C3_Witness ==
    /\ kb.op = "search"
    /\ Len(kb.result) > 0
    /\ \E i \in DOMAIN store : store[i].metadata["tenant_id"] # kb.tenant

\* C4: messages are append-only: every step keeps every existing message row
\* as it is (conversation id, tenant id, role, content, metadata, creation
\* time), adds at most one row, and a save_message that returns adds exactly
\* one.
C4_MessagesAppendOnly ==
    [][ /\ Len(messages') \in {Len(messages), Len(messages) + 1}
        /\ \A i \in 1..Len(messages) : messages'[i] = messages[i]
        /\ (db' # db /\ db'.op = "save_message" /\ ~db'.raised)
              => Len(messages') = Len(messages) + 1 ]_vars

\* process_message wrote a user and an assistant message, and a status update
\* was made after them
C4_Witness ==
    /\ Len(messages) >= 2
    /\ messages[1].role = "user"
    /\ messages[2].role = "assistant"
    /\ db.op = "update_conversation_status"
    /\ ~db.raised

\* C5: once a conversation's ended_at is set, no later
\* update_conversation_status call changes it: a call whose query found the
\* row with its end time set leaves every end time as it is in each of its
\* steps, whatever its status and escalated arguments, a second terminal
\* status included, and whatever other calls run beside it.
C5_EndedAtSetOnce ==
    [][ \A p \in Procs :
            (/\ call[p].pc \in {"ucs_assign", "ucs_commit"}
             /\ call'[p] # call[p]
             /\ call[p].loaded.ended_at # NoTime)
                => \A i \in 1..Len(conversations) :
                       conversations'[i].ended_at = conversations[i].ended_at ]_vars

\* a call with a terminal status has committed on a conversation that its
\* query found ended under the other terminal status: the status is the
\* call's, the end time the one it found
C5_Witness ==
    /\ db.op = "update_conversation_status"
    /\ ~db.raised
    /\ db.status \in {{"resolved"}, {"escalated"}}
    /\ db.found.ended_at # NoTime
    /\ db.found.resolution_status \in {"resolved", "escalated"} \ db.status
    /\ conversations[db.conversation_id].resolution_status \in db.status
    /\ conversations[db.conversation_id].ended_at = db.found.ended_at

\* C6: a conversation whose status is RESOLVED, ESCALATED or ABANDONED keeps
\* that status in every later state.
C6_TerminalStatusIsFinal ==
    [][ \A i \in 1..Len(conversations) :
            conversations[i].resolution_status \in {"resolved", "escalated", "abandoned"}
                => conversations'[i].resolution_status
                       = conversations[i].resolution_status ]_vars

\* C7: a successful index_document of a document that the same tenant indexed
\* successfully just before leaves, under that document id, exactly the
\* vectors of the new content.
C7_ReindexReplaces ==
    [][ ( /\ kb.op = "index" /\ kb.result
          /\ kb'.op = "index" /\ kb'.result
          /\ kbOps' = kbOps + 1
          /\ kb'.tenant = kb.tenant
          /\ kb'.doc = kb.doc )
        => VectorsOfDocument(store', kb'.doc)
               = {kb'.upserts[1][k] : k \in 1..Len(kb'.upserts[1])} ]_vars

\* C8: index_document never raises; when the client is missing, an embedding
\* fails or the upsert fails it returns False and the store is unchanged;
\* otherwise it returns True and has made exactly one upsert call, which
\* carries one vector per chunk of the document.
C8_IndexAllOrNothing ==
    [][ (kb'.op = "index" /\ kbOps' = kbOps + 1) =>
          LET chunks == ChunksOf[kb'.content].chunks
              failed == \/ ~kb'.client
                        \/ kb'.fail \in 1..Len(chunks)
                        \/ kb'.fail = UpsertFails
          IN  /\ ~kb'.raised
              /\ failed => (kb'.result = FALSE /\ store' = store)
              /\ ~failed =>
                    /\ kb'.result = TRUE
                    /\ Len(kb'.upserts) = 1
                    /\ Len(kb'.upserts[1]) = Len(chunks)
                    /\ \A k \in 1..Len(chunks) :
                          /\ kb'.upserts[1][k].metadata["content"] = chunks[k]
                          /\ kb'.upserts[1][k].id \in DOMAIN store'
                          /\ store'[kb'.upserts[1][k].id] = kb'.upserts[1][k] ]_vars

\* the embedding of the second chunk of a document failed after the first
\* chunk had been embedded
C8_Witness ==
    /\ kb.op = "index"
    /\ kb.client
    /\ kb.fail = 2
    /\ Len(ChunksOf[kb.content].chunks) >= 2
    /\ kb.result = FALSE

\* C9: a delete_document(d) of tenant T that succeeds removes every vector
\* whose metadata has document id d and tenant id T, and leaves every other
\* vector as it was.
C9_DeleteFrame ==
    [][ (kb'.op = "delete" /\ kbOps' = kbOps + 1 /\ kb'.result) =>
          /\ DOMAIN store' \subseteq DOMAIN store
          /\ \A i \in DOMAIN store :
                IF /\ store[i].metadata["document_id"] = kb'.doc
                   /\ store[i].metadata["tenant_id"] = kb'.tenant
                THEN i \notin DOMAIN store'
                ELSE i \in DOMAIN store' /\ store'[i] = store[i] ]_vars

\* a delete removed the vectors of a document of several chunks and left the
\* vectors of another document
C9_Witness ==
    /\ kb.op = "delete"
    /\ kb.result
    /\ kb.removed >= 2
    /\ DOMAIN store # {}

IsNormalReturn(p) == ret[p].op = "process_message" /\ ret[p].path = "normal"

\* C10: the retrieval step of process_message never ends the turn: the
\* request goes on to save its answer, and when the search failed (client
\* missing, embedding or query raising) it used no document and a prompt
\* without context; a turn that then returns on the normal path returns the
\* generated answer, saved with documents_used = 0, not the error response.
C10_RetrievalDegrades ==
    [][ \A p \in Procs :
          /\ call[p].pc = "pm_generate" =>
                /\ call'[p].pc \in {"pm_generate", "pm_check"}
                /\ (call'[p].pc = "pm_check" /\ call'[p].search_failed) =>
                      /\ call'[p].documents_used = 0
                      /\ call'[p].llm_messages[1].content
                             = BuildSystemPrompt(call[p].tenant, "")
          /\ (IsNormalReturn(p) /\ ret[p].search_failed) =>
                /\ messages[ret[p].asst_msg].extra_data["documents_used"] = 0
                /\ messages[ret[p].asst_msg].content = ret[p].result.response
                /\ ret[p].result.response # ErrorMessage
                /\ ret[p].result.confidence # ConfidenceError ]_vars

\* a turn whose search failed although the client was there returned a
\* generated answer on the normal path
C10_Witness ==
    /\ IsNormalReturn(1)
    /\ ret[1].client
    /\ ret[1].search_failed
    /\ ~ret[1].llm_failed

\* the positions of the store's response whose score reaches the threshold
KeptPositions(matches, score_threshold) ==
    {k \in 1..Len(matches) : matches[k].score >= score_threshold}

\* C11: every match search returns has score >= score_threshold; the result
\* is the store's response (at most top_k candidates) with exactly the
\* candidates below the threshold removed, in the same order; its length is
\* between 0 and top_k.
C11_ThresholdAfterTopK ==
    kb.op = "search" =>
        LET keep == KeptPositions(kb.matches, kb.score_threshold)
        IN  /\ Len(kb.matches) <= kb.top_k
            /\ Len(kb.result) = Cardinality(keep)
            /\ Len(kb.result) \in 0..kb.top_k
            /\ \A i \in 1..Len(kb.result) :
                  /\ kb.result[i].score >= kb.score_threshold
                  /\ \E k \in keep :
                        /\ Cardinality({j \in keep : j <= k}) = i
                        /\ kb.result[i].id = kb.matches[k].id
                        /\ kb.result[i].score = kb.matches[k].score

\* a search kept a candidate whose score equals the threshold and dropped
\* another one
C11_Witness ==
    /\ kb.op = "search"
    /\ Len(kb.matches) >= 2
    /\ Len(kb.result) >= 1
    /\ Len(kb.result) < Len(kb.matches)
    /\ \E i \in 1..Len(kb.result) : kb.result[i].score = kb.score_threshold

\* C12: get_conversation_history(conversation id, limit) of tenant T returns
\* at most limit messages, each of that conversation and of tenant T, in
\* non-decreasing order of creation time.
C12_HistoryScopeAndOrder ==
    db.op = "get_conversation_history" =>
        /\ Len(db.result) <= db.limit
        /\ \A k \in 1..Len(db.result) :
              /\ db.result[k].conversation_id = db.conversation_id
              /\ db.result[k].tenant_id = TenantUuid(db.tenant)
        /\ \A k \in 1..(Len(db.result) - 1) :
              db.result[k].created_at <= db.result[k + 1].created_at

\* a history call returned as many messages as its limit while the
\* conversation also holds a message saved under another tenant
C12_Witness ==
    /\ db.op = "get_conversation_history"
    /\ Len(db.result) = db.limit
    /\ \E i \in 1..Len(messages) :
          /\ messages[i].conversation_id = db.conversation_id
          /\ messages[i].tenant_id # TenantUuid(db.tenant)

\* the request of p ended, or returned, in this step
Ended(p) ==
    \/ call[p].pc # "idle" /\ call'[p].pc = "idle"
    \/ ret'[p] # ret[p]

\* the conversation ids of the rows of the table, as strings
ConversationIds == {ToString(i) : i \in 1..Len(conversations')}

\* C13: process_message never raises: a request whose step fails
\* (get-or-create, either message save, history load, status update, the
\* reload of the conversation for the result) returns the fixed apologetic
\* response with escalate = true, confidence = 0.0, the caller's session id
\* and a conversation id that no conversation has.
C13_ErrorResponse ==
    [][ \A p \in Procs :
          (Ended(p) /\ ret'[p].op = "process_message") =>
              /\ ~ret'[p].raised
              /\ ret'[p].path \in {"normal", "error"}
              /\ ret'[p].path = "error" =>
                    /\ ret'[p].step \in {"pm_start", "pm_insert", "pm_save_user",
                                         "pm_history", "pm_check", "pm_save_asst",
                                         "pm_update", "pm_update_commit",
                                         "pm_return"}
                    /\ ret'[p].result.response = ErrorMessage
                    /\ ret'[p].result.escalate = TRUE
                    /\ ret'[p].result.confidence = 0
                    /\ ret'[p].result.session_id = ret'[p].session
                    /\ ret'[p].result.conversation_id \notin ConversationIds ]_vars

\* the status update of an escalating turn failed after both messages had
\* been saved, and the request returned the error response
C13_Witness ==
    /\ ret[1].op = "process_message"
    /\ ret[1].path = "error"
    /\ ret[1].step = "pm_update"
    /\ Len(messages) >= 2

\* the tenant's first configured fallback string, or the fixed default one
FirstFallback(slug) ==
    IF /\ "ai_config" \in DOMAIN TenantConfig(slug)
       /\ "fallback_responses" \in DOMAIN TenantConfig(slug).ai_config
       /\ TenantConfig(slug).ai_config.fallback_responses # <<>>
    THEN TenantConfig(slug).ai_config.fallback_responses[1]
    ELSE "I'm having trouble processing that right now. Please try again or contact support."

\* C14: a process_message turn whose language-model call failed returns the
\* tenant's first configured fallback string (or the fixed default apology),
\* confidence 0.5 and escalate = true, whatever the message and the
\* escalation keywords.
C14_FallbackEscalates ==
    \A p \in Procs :
        (IsNormalReturn(p) /\ ret[p].llm_failed) =>
            /\ ret[p].result.response = FirstFallback(ret[p].tenant)
            /\ ret[p].result.confidence = ConfidenceFallback
            /\ ret[p].result.escalate = TRUE

\* the request of p returned on the normal path in this step
NormalReturnStep(p) ==
    /\ Ended(p)
    /\ ret'[p].op = "process_message"
    /\ ret'[p].path = "normal"

\* C15: when the escalation check fired on a turn that returns on the normal
\* path, the response is the answer that was generated, that answer is the
\* saved assistant message, escalate = true, and the conversation is stored
\* with status ESCALATED and escalated = true.
C15_EscalationKeepsAnswer ==
    [][ \A p \in Procs :
          ( /\ NormalReturnStep(p)
            /\ messages'[ret'[p].asst_msg].extra_data["escalation_triggered"] ) =>
              /\ ret'[p].result.escalate = TRUE
              /\ ret'[p].result.response = call[p].ai
              /\ messages'[ret'[p].asst_msg].role = "assistant"
              /\ messages'[ret'[p].asst_msg].content = ret'[p].result.response
              /\ messages'[ret'[p].asst_msg].conversation_id = ret'[p].conv
              /\ conversations'[ret'[p].conv].resolution_status = "escalated"
              /\ conversations'[ret'[p].conv].escalated = TRUE ]_vars

\* a turn whose language-model call succeeded returned its generated answer
\* with escalate = true
C15_Witness ==
    /\ IsNormalReturn(1)
    /\ ret[1].result.escalate
    /\ ~ret[1].llm_failed
    /\ ret[1].result.response = messages[ret[1].asst_msg].content
    /\ conversations[ret[1].conv].resolution_status = "escalated"

\* the tenant's configured escalation keywords
KeywordsOf(slug) ==
    IF /\ "ai_config" \in DOMAIN TenantConfig(slug)
       /\ "escalation_keywords" \in DOMAIN TenantConfig(slug).ai_config
    THEN TenantConfig(slug).ai_config.escalation_keywords
    ELSE <<>>

\* some keyword of the tenant occurs, case ignored, in the text
KeywordOccurs(slug, text) ==
    \E k \in 1..Len(KeywordsOf(slug)) :
        Contains(Lower(text), Lower(KeywordsOf(slug)[k]))

\* C16: a turn that returns on the normal path while no escalation keyword
\* occurs in the message or the answer and the message count is below the
\* threshold returns escalate = false, and no step of the turn after the
\* conversation was found or created changes the conversation: it stays
\* PENDING, not escalated, with no end timestamp.
C16_NoEscalationFrame ==
    [][ \A p \in Procs :
          /\ call[p].pc \in {"pm_user", "pm_save_user", "pm_history", "pm_generate",
                             "pm_check", "pm_asst", "pm_save_asst", "pm_return"}
                => conversations' = conversations
          /\ ( /\ NormalReturnStep(p)
               /\ ~KeywordOccurs(ret'[p].tenant,
                                 ret'[p].message \o " " \o ret'[p].result.response)
               /\ MessageCount(messages, ret'[p].conv) < 999 ) =>
                 /\ ret'[p].result.escalate = FALSE
                 /\ conversations' = conversations
                 /\ conversations'[ret'[p].conv].resolution_status = "pending"
                 /\ conversations'[ret'[p].conv].escalated = FALSE
                 /\ conversations'[ret'[p].conv].ended_at = NoTime ]_vars

\* a turn of the tenant that has escalation keywords returned without
\* escalating and its conversation is still pending
C16_Witness ==
    /\ IsNormalReturn(1)
    /\ ret[1].tenant = "acme"
    /\ ~ret[1].llm_failed
    /\ ret[1].result.escalate = FALSE
    /\ conversations[ret[1].conv].resolution_status = "pending"

\* C17: a process_message call with an empty message is rejected before any
\* side effect: no step of it creates a conversation or saves a message.
C17_EmptyMessageRejected ==
    [][ \A p \in Procs :
          ("message" \in DOMAIN call[p] /\ call[p].message = "") =>
              /\ conversations' = conversations
              /\ messages' = messages ]_vars

\* the position the spaces that start at position c of T end at
SkipSpaces(T, c) ==
    Max({j \in c..Len(T) : \A i \in c..(j - 1) : CharAt(T, i) = " "})

\* chunk ch is the part of T that starts at offset o
OccursAt(T, ch, o) ==
    /\ o + Len(ch) <= Len(T)
    /\ SubSeq(T, o + 1, o + Len(ch)) = ch

\* the lengths of the prefixes of T that the first k chunks can cover when
\* they are laid over T in order, each starting inside or right after what
\* is covered already (spaces between two chunks do not count)
RECURSIVE CoveredAfter(_, _, _)
CoveredAfter(T, chunks, k) ==
    IF k = 0 THEN {0}
    ELSE LET prev == CoveredAfter(T, chunks, k - 1)
             fits == {co \in prev \X (0..Len(T)) :
                         /\ co[2] <= SkipSpaces(T, co[1])
                         /\ OccursAt(T, chunks[k], co[2])}
         IN  {Max({co[1], co[2] + Len(chunks[k])}) : co \in fits}

\* C18: the chunks _chunk_text returns, laid over the whitespace-normalized
\* text in order with their overlaps, cover the whole text (no character of
\* it is missing from all chunks), and no chunk is longer than chunk size +
\* overlap.
C18_ChunkCoverage ==
    kb.op = "chunk" =>
        LET T == Strip(CollapseSpaces(kb.text))
        IN  /\ Len(T) \in CoveredAfter(T, kb.chunks, Len(kb.chunks))
            /\ \A k \in 1..Len(kb.chunks) :
                  Len(kb.chunks[k]) <= kb.chunk_size + kb.overlap

\* C19: the vector ids of a successful index_document are the document id
\* when the document has one chunk and document id, "_", chunk index
\* otherwise; a successful index_document that follows a successful one of
\* the same document id and content submits the same set of ids and leaves
\* the set of stored vector ids as it was.
C19_ReindexIdempotent ==
    [][ (kb'.op = "index" /\ kbOps' = kbOps + 1 /\ kb'.result) =>
          LET sent == kb'.upserts[1]
              n == Len(sent)
              ids == {sent[k].id : k \in 1..n}
          IN  /\ \A k \in 1..n :
                    sent[k].id = IF n = 1 THEN kb'.doc
                                 ELSE kb'.doc \o "_" \o ToString(k - 1)
              /\ ( /\ kb.op = "index" /\ kb.result
                   /\ kb.doc = kb'.doc
                   /\ kb.content = kb'.content )
                 => /\ ids = {kb.upserts[1][k].id : k \in 1..Len(kb.upserts[1])}
                    /\ DOMAIN store' = DOMAIN store ]_vars

\* a second successful index_document of a two-chunk document, made when the
\* store held exactly the two ids of that document
C19_Witness ==
    /\ kb.op = "index"
    /\ kb.result
    /\ kbOps = 2
    /\ Len(kb.upserts[1]) = 2
    /\ kb.doc = "d1"
    /\ kb.before = {"d1_0", "d1_1"}
    /\ DOMAIN store = kb.before

\* the letters that differ from a letter by case alone
OtherCase ==
    [c \in {SubSeq("ABCDEFGHIJKLMNOPQRSTUVWXYZabcdefghijklmnopqrstuvwxyz", k, k) :
                k \in 1..52} |->
        CHOOSE d \in {SubSeq("abcdefghijklmnopqrstuvwxyzABCDEFGHIJKLMNOPQRSTUVWXYZ", k, k) :
                         k \in 1..52} :
            \E k \in 1..52 :
                /\ c = SubSeq("ABCDEFGHIJKLMNOPQRSTUVWXYZabcdefghijklmnopqrstuvwxyz", k, k)
                /\ d = SubSeq("abcdefghijklmnopqrstuvwxyzABCDEFGHIJKLMNOPQRSTUVWXYZ", k, k)]

\* two characters that are equal or the two cases of one letter
SameIgnoringCase(a, b) ==
    \/ a = b
    \/ a \in DOMAIN OtherCase /\ OtherCase[a] = b

\* the keyword occurs in the text at some offset, case ignored
OccursIgnoringCase(text, keyword) ==
    \E o \in 0..(Len(text) - Len(keyword)) :
        \A j \in 1..Len(keyword) :
            SameIgnoringCase(SubSeq(text, o + j, o + j), SubSeq(keyword, j, j))

\* C20: a turn that returns on the normal path escalates whenever some
\* escalation keyword of the tenant occurs, case ignored, in the user message
\* followed by a space and the answer; when no keyword occurs there and the
\* conversation has fewer messages than the volume threshold it does not
\* escalate.
C20_KeywordRule ==
    [][ \A p \in Procs :
          NormalReturnStep(p) =>
              IF \E k \in 1..Len(KeywordsOf(ret'[p].tenant)) :
                    OccursIgnoringCase(
                        ret'[p].message \o " " \o ret'[p].result.response,
                        KeywordsOf(ret'[p].tenant)[k])
              THEN ret'[p].result.escalate = TRUE
              ELSE MessageCount(messages, ret'[p].conv) < 999
                      => ret'[p].result.escalate = FALSE ]_vars

\* a turn escalated because the answer holds "manager" while the configured
\* keyword is written "Manager"
C20_Witness ==
    /\ IsNormalReturn(1)
    /\ ret[1].tenant = "acme"
    /\ ret[1].message = "What are your hours?"
    /\ ret[1].result.response = "A manager will call you"
    /\ ret[1].result.escalate = TRUE

\* C21: a get_or_create_conversation that returns gives a conversation of the
\* requested channel: the lookup is by tenant, session id and channel, so a
\* conversation that is active on another channel is never returned.
C21_LookupByChannel ==
    IsGocReturn(1) =>
        conversations[ret[1].conversation_id].channel = ret[1].channel

\* the rows of a conversation, in insertion order
RowsOf(conversation_id) ==
    LET of(m) == m.conversation_id = conversation_id
    IN  SelectSeq(messages, of)

\* C22: the history a turn has loaded when it generates is the most recent
\* ten rows of the conversation (all of them when there are fewer), oldest
\* first, and its last entry is the user message the turn has just saved.
C22_HistoryIsRecent ==
    call[1].pc = "pm_generate" =>
        LET rows == RowsOf(call[1].conv)
            n == Len(rows)
            h == call[1].history
        IN  /\ h = SubSeq(rows, Max({1, n - 9}), n)
            /\ h # <<>>
            /\ h[Len(h)].role = "user"
            /\ h[Len(h)].content = call[1].message

\* C23: a conversation whose status is resolved, escalated or abandoned has
\* its end timestamp set.
C23_TerminalHasEnd ==
    \A i \in 1..Len(conversations) :
        conversations[i].resolution_status \in {"resolved", "escalated", "abandoned"}
            => conversations[i].ended_at # NoTime

\* the conversations of a tenant's session that have not ended
OpenFor(slug, session_id) ==
    {i \in 1..Len(conversations) :
        /\ conversations[i].tenant_id = "uuid-" \o slug
        /\ conversations[i].session_id = session_id
        /\ conversations[i].ended_at = 0}

\* C24: a process_message call whose lookup succeeds while its session has an
\* active conversation goes on with that conversation, and no step of such a
\* turn adds a conversation; a call whose session has no active conversation
\* (none yet, or all ended) goes on to insert one, and the insert adds one row
\* with a new id, status PENDING, escalated = false, no end timestamp and no
\* message, and leaves every other conversation and every message as it was.
C24_LazyCreateAndRestart ==
    [][ \A p \in Procs :
          /\ (call[p].pc = "pm_start" /\ call'[p].pc # "idle") =>
                LET open == OpenFor(call'[p].tenant, call'[p].session)
                IN  /\ conversations' = conversations
                    /\ open # {} => /\ call'[p].pc = "pm_user"
                                    /\ call'[p].conv \in open
                    /\ open = {} => call'[p].pc = "pm_new"
          /\ call[p].pc \in {"pm_new", "pm_user", "pm_save_user", "pm_history",
                             "pm_generate", "pm_check", "pm_asst", "pm_save_asst",
                             "pm_update", "pm_assign", "pm_update_commit", "pm_return"}
                => Len(conversations') = Len(conversations)
          /\ (call[p].pc = "pm_insert" /\ call'[p].pc # "idle") =>
                LET id == call'[p].conv
                IN  /\ id \notin 1..Len(conversations)
                    /\ Len(conversations') = Len(conversations) + 1
                    /\ id = Len(conversations')
                    /\ SubSeq(conversations', 1, Len(conversations)) = conversations
                    /\ conversations'[id].resolution_status = "pending"
                    /\ conversations'[id].escalated = FALSE
                    /\ conversations'[id].ended_at = 0
                    /\ conversations'[id].session_id = call[p].session
                    /\ messages' = messages
                    /\ \A k \in 1..Len(messages) : messages[k].conversation_id # id ]_vars

\* the second turn of a session goes on with a new, pending conversation
\* after the first turn escalated and ended the first conversation
C24_Witness ==
    /\ Len(conversations) = 2
    /\ conversations[1].resolution_status = "escalated"
    /\ conversations[1].ended_at # 0
    /\ conversations[2].session_id = conversations[1].session_id
    /\ conversations[2].tenant_id = conversations[1].tenant_id
    /\ conversations[2].resolution_status = "pending"
    /\ call[1].pc = "pm_user"
    /\ call[1].conv = 2
    /\ \E k \in 1..Len(messages) : messages[k].conversation_id = 1

\* the rows among the first k of a sequence that have the role
CountRole(rows, k, role) == Cardinality({i \in 1..k : rows[i].role = role})

\* the conversation's rows after the step, in insertion order
RowsAfter(conversation_id) ==
    LET of(m) == m.conversation_id = conversation_id
    IN  SelectSeq(messages', of)

\* C25: within a turn the user message is persisted before generation and
\* the assistant message after it, each by a commit of its own: the commit of
\* step 2 appends the turn's user message, the commit of step 8 appends the
\* assistant message and runs only when the turn's user message is stored,
\* and no other step writes a message; a turn that ends with the error
\* response has persisted at most its user message; and every prefix of a
\* conversation's rows, in insertion order, has at least as many user rows
\* as assistant rows.
C25_UserBeforeAssistant ==
    [][ /\ \A p \in Procs :
             /\ ( /\ call[p].pc = "pm_save_user"
                  /\ call'[p] # call[p]
                  /\ messages' # messages ) =>
                   /\ Len(messages') = Len(messages) + 1
                   /\ SubSeq(messages', 1, Len(messages)) = messages
                   /\ messages'[Len(messages')].role = "user"
                   /\ messages'[Len(messages')].content = call[p].message
                   /\ messages'[Len(messages')].conversation_id = call[p].conv
             /\ ( /\ call[p].pc = "pm_save_asst"
                  /\ call'[p] # call[p]
                  /\ messages' # messages ) =>
                   /\ Len(messages') = Len(messages) + 1
                   /\ SubSeq(messages', 1, Len(messages)) = messages
                   /\ messages'[Len(messages')].role = "assistant"
                   /\ messages'[Len(messages')].conversation_id = call[p].conv
                   /\ \E k \in 1..Len(messages) :
                         /\ messages[k].role = "user"
                         /\ messages[k].content = call[p].message
                         /\ messages[k].conversation_id = call[p].conv
             /\ (Ended(p) /\ ret'[p].op = "process_message" /\ ret'[p].path = "error")
                   => /\ ret'[p].step \notin {"pm_update", "pm_update_commit",
                                              "pm_return"}
                      /\ ret'[p].step = "pm_save_asst" => messages' = messages
        /\ messages' # messages =>
              \E p \in Procs :
                  /\ call[p].pc \in {"pm_save_user", "pm_save_asst"}
                  /\ call'[p] # call[p]
        /\ \A c \in 1..Len(conversations') :
              \A k \in 0..Len(RowsAfter(c)) :
                  CountRole(RowsAfter(c), k, "user")
                      >= CountRole(RowsAfter(c), k, "assistant") ]_vars

\* C26: every iteration of the loop of _chunk_text moves the window start
\* strictly forward, and the window start is never negative.
C26_WindowAdvances ==
    [][ (kb.op = "chunk_loop" /\ kb'.op = "chunk_loop") =>
            /\ kb'.start > kb.start
            /\ kb'.start >= 0 ]_vars

\* C27: the message sequence a turn sends to the language model ends with
\* the turn's user message in role user, and holds that message exactly once:
\* either the row the turn saved is among the history entries it sends, or
\* an entry is appended for it, and not both.
C27_EndsWithCurrentMessage ==
    [][ (call[1].pc = "pm_generate" /\ call'[1].pc = "pm_check") =>
          LET sent == call'[1].llm_messages
              h == call[1].history
              rows == RowsOf(call[1].conv)
              saved == rows[Len(rows)]
              inHistory == \E k \in Max({1, Len(h) - 9})..Len(h) : h[k] = saved
              appended == Len(sent) = 1 + Min({Len(h), 10}) + 1
          IN  /\ sent[Len(sent)] = [role |-> "user", content |-> call[1].message]
              /\ saved.role = "user"
              /\ saved.content = call[1].message
              /\ inHistory # appended ]_vars

\* C28: when process_message is the only writer, every conversation is
\* either escalated (escalated = true, status ESCALATED, end timestamp set)
\* or PENDING, not escalated and active; no conversation mixes the two.
C28_EscalationTriple ==
    \A i \in 1..Len(conversations) :
        \/ /\ conversations[i].escalated = TRUE
           /\ conversations[i].resolution_status = "escalated"
           /\ conversations[i].ended_at # 0
        \/ /\ conversations[i].escalated = FALSE
           /\ conversations[i].resolution_status = "pending"
           /\ conversations[i].ended_at = 0

\* an escalated, ended conversation beside a pending, active one
C28_Witness ==
    /\ Len(conversations) = 2
    /\ conversations[1].escalated
    /\ conversations[1].resolution_status = "escalated"
    /\ conversations[1].ended_at # 0
    /\ conversations[2].resolution_status = "pending"
    /\ conversations[2].ended_at = 0
    /\ IsNormalReturn(1)

\* C29: no message is appended to a conversation whose end timestamp is set.
C29_NoAppendAfterEnd ==
    [][ Len(messages') > Len(messages) =>
            conversations[messages'[Len(messages')].conversation_id].ended_at = 0 ]_vars

\* C30: an index_document of one tenant leaves every vector that another
\* tenant indexed in the store, unchanged.  (A vector indexed without caller
\* metadata carries the tenant id of the tenant that indexed it.)
C30_IndexKeepsOtherTenants ==
    [][ (kb'.op = "index" /\ kbOps' = kbOps + 1) =>
          \A id \in DOMAIN store :
              ( /\ "source" \notin DOMAIN store[id].metadata
                /\ store[id].metadata["tenant_id"] # kb'.tenant )
              => /\ id \in DOMAIN store'
                 /\ store'[id] = store[id] ]_vars

====
